---- MODULE Spec2Model ----
(***************************************************************************)
(* Person tracker, edge device: the multi-object tracker (edge/tracker.py), *)
(* the anonymous session manager (edge/session.py) and the frame loop that  *)
(* steps both (edge/main.py).                                               *)
(*                                                                          *)
(* Numbers.  Boxes are <<x1, y1, x2, y2>> with integer pixel coordinates.   *)
(* The Kalman state kf.x = [x, y, s, r, vx, vy, vs] is kept exactly: the    *)
(* centre is stored doubled (x2c = x1 + x2), the ratio r as the pair        *)
(* rn / rd.  The filter decouples per coordinate (F, H, P, Q, R are block   *)
(* diagonal), and a measurement correction moves each coordinate by a gain  *)
(* in [0, 1] times the innovation: the model lets the corrected coordinate  *)
(* be any grid value between prediction and measurement, so a zero          *)
(* innovation leaves the coordinate (and its velocity) unchanged.           *)
(* An IoU is the exact fraction num / den; comparisons cross-multiply.      *)
(* Time is an integer number of ticks, TicksPerSecond ticks to the second.  *)
(***************************************************************************)
EXTENDS Integers, Sequences, FiniteSets, TLC

\* ------------------------------------------------------------------ bounds
MaxFrames == 5          \* update calls of one run, two-person scene
LongFrames == 8         \* update calls of one run, one-person scene
MaxDets == 2            \* detections of one batch
MaxVel == 1             \* |vx| of a track, in pixels per frame
MaxIds == 3             \* identities handed out in one run
max_age == 2            \* BoTSORT(max_age=...): configured, explored small

MaxObs == 2             \* frames of one session, session manager alone
LongObs == 31           \* frames of the one session observed at length
MaxTime == 5            \* ticks of one run
LoopFrames == 4         \* frames of one run of the frame loop
TicksPerSecond == 2     \* clock ticks to the second
session_timeout == 1    \* SessionManager(timeout=...): configured, seconds
MaxRequests == 3        \* documents stored in one run of the API
MaxSeconds == 2         \* longest duration of a payload given to the schema
MaxVotes == 4           \* votes of one list given to the majority vote
MaxCoord == 3           \* largest coordinate of a box given to _iou_batch
UnderflowRatio == 1000  \* h / w from which the float w / h is flushed to 0.0

\* --------------------------------------------------------------- constants
min_hits == 3
IouThrNum == 3
IouThrDen == 10
DefaultFps == 30
realsense_fps == 30
api_key == "your-secret-api-key-here"
max_detection_distance == 500
device_id == 12
firmware_version == "1.8.2"
model_version == "yolov8n"

\* Python's None, among strings and among distances.
None == "None"
NoDistance == -1

\* ---------------------------------------------------------------- helpers
Max(a, b) == IF a >= b THEN a ELSE b
Min(a, b) == IF a <= b THEN a ELSE b
Abs(a) == IF a >= 0 THEN a ELSE -a
Between(a, b) == Min(a, b)..Max(a, b)
Range(f) == {f[i] : i \in DOMAIN f}

RECURSIVE SeqOfSet(_)
\* The elements of a finite set of integers, ascending.
SeqOfSet(S) ==
    IF S = {} THEN <<>>
    ELSE LET m == CHOOSE x \in S : \A y \in S : x <= y
         IN <<m>> \o SeqOfSet(S \ {m})

RECURSIVE Reverse(_)
Reverse(s) == IF s = <<>> THEN <<>> ELSE Reverse(Tail(s)) \o <<Head(s)>>

\* ------------------------------------------------------------- detections
\* One person-sized box at two disjoint places, and a box of zero width.
SceneBoxes == {<<0, 0, 2, 2>>, <<5, 0, 7, 2>>, <<9, 0, 9, 2>>}
\* The scene with one person in it.
LoneBoxes == {<<0, 0, 2, 2>>, <<9, 0, 9, 2>>}

\* The batches over a set of boxes: at most MaxDets distinct detections,
\* listed left to right.
Batches(boxes) ==
    {b \in UNION {[1..n -> boxes] : n \in 0..MaxDets} :
        \A i, j \in DOMAIN b : i < j => b[i][1] < b[j][1]}

\* ------------------------------------------------------- KalmanBoxTracker
\* _convert_bbox_to_z: [x, y, s, r] of a box; r = w / (h + 1e-6), a float
\* quotient, which is 0.0 when w / h lies below the smallest float.
ConvertBBoxToZ(bbox) ==
    LET w == bbox[3] - bbox[1]
        h == bbox[4] - bbox[2]
    IN [x |-> 2 * bbox[1] + w, y |-> 2 * bbox[2] + h, s |-> w * h,
        rn |-> IF w > 0 /\ h >= UnderflowRatio * w THEN 0 ELSE w, rd |-> h]

\* The sign of s * r, r = rn / (rd + 1e-6).
SignSR(x) ==
    LET sr == IF x.rd >= 0 THEN 1 ELSE -1
        p == x.s * x.rn * sr
    IN IF p > 0 THEN 1 ELSE IF p < 0 THEN -1 ELSE 0

\* What _convert_x_to_bbox yields: w = sqrt(s * r) is NaN for s * r < 0;
\* h = s / w is NaN for 0 / 0 and infinite for s / 0.
BoxClass(x) ==
    IF SignSR(x) < 0 THEN "nan"
    ELSE IF SignSR(x) = 0 THEN (IF x.s = 0 THEN "nan" ELSE "inf")
    ELSE "finite"

\* _convert_x_to_bbox of a state with a finite box: w = sqrt(s * r),
\* h = s / w, corners at centre -/+ half of them.
ConvertXToBBox(x) ==
    LET w == CHOOSE q \in 1..(Abs(x.s) + Abs(x.rn)) :
                 q * q * Abs(x.rd) = Abs(x.s * x.rn)
        h == x.s \div w
    IN <<(x.x - w) \div 2, (x.y - h) \div 2, (x.x + w) \div 2, (x.y + h) \div 2>>

\* KalmanBoxTracker.__init__ with KalmanBoxTracker.count = cnt.
KalmanInit(bbox, cnt) ==
    [id |-> cnt,
     kf |-> [vx |-> 0, vy |-> 0, vs |-> 0] @@ ConvertBBoxToZ(bbox),
     time_since_update |-> 0, hits |-> 0, hit_streak |-> 0, age |-> 0]

\* predict without the line that ages the track (line 93).
KalmanPredict_NoAging(trk) ==
    [trk EXCEPT !.kf = [trk.kf EXCEPT !.x = trk.kf.x + trk.kf.vx,
                                      !.y = trk.kf.y + trk.kf.vy],
                !.age = trk.age + 1]

\* predict that resets hit_streak whether or not the track was coasting.
KalmanPredict_AlwaysResets(trk) ==
    LET vs0 == IF trk.kf.vs + trk.kf.s <= 0 THEN 0 ELSE trk.kf.vs
        kf1 == [trk.kf EXCEPT !.vs = vs0,
                              !.x = trk.kf.x + trk.kf.vx,
                              !.y = trk.kf.y + trk.kf.vy,
                              !.s = trk.kf.s + vs0]
    IN [trk EXCEPT !.kf = kf1,
                   !.age = trk.age + 1,
                   !.hit_streak = 0,
                   !.time_since_update = trk.time_since_update + 1]

\* KalmanBoxTracker.predict.
KalmanPredict(trk) ==
    LET vs0 == IF trk.kf.vs + trk.kf.s <= 0 THEN 0 ELSE trk.kf.vs
        kf1 == [trk.kf EXCEPT !.vs = vs0,
                              !.x = trk.kf.x + trk.kf.vx,
                              !.y = trk.kf.y + trk.kf.vy,
                              !.s = trk.kf.s + vs0]
    IN [trk EXCEPT !.kf = kf1,
                   !.age = trk.age + 1,
                   !.hit_streak = IF trk.time_since_update > 0 THEN 0
                                  ELSE trk.hit_streak,
                   !.time_since_update = trk.time_since_update + 1]

\* kf.update(z): every state the correction can produce on the grid.  The
\* corrected x lies between prediction and measurement, its velocity between
\* the old velocity and the old velocity plus the innovation; y, s and r
\* move to the measurement or stay.
KFUpdate(x, z) ==
    {[x EXCEPT !.x = px, !.vx = pv, !.y = py, !.s = ps.s, !.rn = ps.rn,
               !.rd = ps.rd] :
        px \in {p \in Between(x.x, z.x) : (p - x.x) % 2 = 0},
        pv \in {v \in Between(x.vx, x.vx + (z.x - x.x)) :
                    (v - x.vx) % 2 = 0 /\ Abs(v) <= 2 * MaxVel},
        py \in {x.y, z.y},
        ps \in {[s |-> x.s, rn |-> x.rn, rd |-> x.rd],
                [s |-> z.s, rn |-> z.rn, rd |-> z.rd]}}

\* update that restarts the streak at 1 with every match.
KalmanUpdate_StreakOfOne(trk, bbox) ==
    {[trk EXCEPT !.time_since_update = 0,
                 !.hits = trk.hits + 1,
                 !.hit_streak = 1,
                 !.kf = k] : k \in KFUpdate(trk.kf, ConvertBBoxToZ(bbox))}

\* KalmanBoxTracker.update: the tracks the call can leave.
KalmanUpdate(trk, bbox) ==
    {[trk EXCEPT !.time_since_update = 0,
                 !.hits = trk.hits + 1,
                 !.hit_streak = trk.hit_streak + 1,
                 !.kf = k] : k \in KFUpdate(trk.kf, ConvertBBoxToZ(bbox))}

\* ---------------------------------------------------------------- BoTSORT
\* _iou_batch with the overlap left in the union (no "- wh").
IoU_OverlapCountedTwice(bb_test, bb_gt) ==
    LET w == Max(0, Min(bb_test[3], bb_gt[3]) - Max(bb_test[1], bb_gt[1]))
        h == Max(0, Min(bb_test[4], bb_gt[4]) - Max(bb_test[2], bb_gt[2]))
    IN [num |-> w * h,
        den |-> (bb_test[3] - bb_test[1]) * (bb_test[4] - bb_test[2])
                + (bb_gt[3] - bb_gt[1]) * (bb_gt[4] - bb_gt[2])]

\* One entry of _iou_batch: the overlap area over the union area.
IoU(bb_test, bb_gt) ==
    LET xx1 == Max(bb_test[1], bb_gt[1])
        yy1 == Max(bb_test[2], bb_gt[2])
        xx2 == Min(bb_test[3], bb_gt[3])
        yy2 == Min(bb_test[4], bb_gt[4])
        w == Max(0, xx2 - xx1)
        h == Max(0, yy2 - yy1)
        wh == w * h
    IN [num |-> wh,
        den |-> (bb_test[3] - bb_test[1]) * (bb_test[4] - bb_test[2])
                + (bb_gt[3] - bb_gt[1]) * (bb_gt[4] - bb_gt[2]) - wh]

\* The post-filter comparison with its sign flipped.
IouBelow_Flipped(o) == o.den > 0 /\ o.num * IouThrDen > IouThrNum * o.den

\* iou > iou_threshold and iou < iou_threshold; both are false of a NaN
\* (0 / 0), and the denominator of any other entry is positive.
IouAbove(o) == o.den > 0 /\ o.num * IouThrDen > IouThrNum * o.den
IouBelow(o) == o.den > 0 /\ o.num * IouThrDen < IouThrNum * o.den

\* _iou_batch: the matrix, indexed [detection][tracker].
IouBatch(dets, trks) ==
    [d \in DOMAIN dets |-> [t \in DOMAIN trks |-> IoU(dets[d], trks[t])]]

RECURSIVE Gcd(_, _)
Gcd(a, b) == IF b = 0 THEN a ELSE Gcd(b, a % b)

RECURSIVE CommonDen(_, _)
\* A common denominator of the entries P of matrix m: the least common
\* multiple of their denominators.
CommonDen(m, P) ==
    IF P = {} THEN 1
    ELSE LET p == CHOOSE q \in P : TRUE
             d == m[p[1]][p[2]].den
             r == CommonDen(m, P \ {p})
         IN (d \div Gcd(d, r)) * r

RECURSIVE TotalIou(_, _, _)
\* The sum of the IoUs of the pairs P, as a multiple of 1 / D.
TotalIou(m, P, D) ==
    IF P = {} THEN 0
    ELSE LET p == CHOOSE q \in P : TRUE
         IN m[p[1]][p[2]].num * (D \div m[p[1]][p[2]].den)
            + TotalIou(m, P \ {p}, D)

\* The complete assignments of an n x k matrix: min(n, k) pairs, no row
\* and no column twice.
Assignments(n, k) ==
    IF n <= k
    THEN {{<<d, f[d]>> : d \in 1..n} :
            f \in {g \in [1..n -> 1..k] :
                     \A a, b \in 1..n : a # b => g[a] # g[b]}}
    ELSE {{<<f[t], t>> : t \in 1..k} :
            f \in {g \in [1..k -> 1..n] :
                     \A a, b \in 1..k : a # b => g[a] # g[b]}}

\* A set of (detection, tracker) pairs as matched_indices: rows ascending.
PairSeq(P) ==
    LET rows == SeqOfSet({p[1] : p \in P})
    IN [i \in DOMAIN rows |-> CHOOSE p \in P : p[1] = rows[i]]

\* _linear_assignment(-iou_matrix): the assignments of maximal total IoU
\* (which of several optimal ones the solver returns is left open).
LinearAssignment(m, n, k) ==
    LET D == CommonDen(m, (1..n) \X (1..k))
        all == Assignments(n, k)
    IN {PairSeq(P) : P \in {Q \in all :
            \A O \in all : TotalIou(m, Q, D) >= TotalIou(m, O, D)}}

\* Lines 179-188: the candidate pairs.  The fast path takes the entries
\* above the threshold when the largest row sum and the largest column
\* sum of the thresholded matrix are both 1.
MatchedIndices(dets, trks) ==
    LET n == Len(dets)
        k == Len(trks)
        m == IouBatch(dets, trks)
        a == {p \in (1..n) \X (1..k) : IouAbove(m[p[1]][p[2]])}
        rowmax1 == /\ \E d \in 1..n : Cardinality({p \in a : p[1] = d}) = 1
                   /\ \A d \in 1..n : Cardinality({p \in a : p[1] = d}) <= 1
        colmax1 == /\ \E t \in 1..k : Cardinality({p \in a : p[2] = t}) = 1
                   /\ \A t \in 1..k : Cardinality({p \in a : p[2] = t}) <= 1
    IN IF Min(n, k) > 0
       THEN (IF rowmax1 /\ colmax1 THEN {PairSeq(a)}
             ELSE LinearAssignment(m, n, k))
       ELSE {<<>>}

\* The association that forgets the pairs the post-filter rejects.
AssociateWith_DropsRejected(dets, trks, mi) ==
    LET m == IouBatch(dets, trks)
        kept == SelectSeq(mi, LAMBDA p : ~IouBelow(m[p[1]][p[2]]))
    IN [matches |-> kept,
        unmatched_dets |->
            SeqOfSet({d \in DOMAIN dets : \A i \in DOMAIN mi : mi[i][1] # d}),
        unmatched_trks |->
            SeqOfSet({t \in DOMAIN trks : \A i \in DOMAIN mi : mi[i][2] # t})]

\* The association without the post-filter.
AssociateWith_NoFilter(dets, trks, mi) ==
    [matches |-> mi,
     unmatched_dets |->
         SeqOfSet({d \in DOMAIN dets : \A i \in DOMAIN mi : mi[i][1] # d}),
     unmatched_trks |->
         SeqOfSet({t \in DOMAIN trks : \A i \in DOMAIN mi : mi[i][2] # t})]

\* _associate_detections_to_trackers, given the candidate pairs mi:
\* matches, unmatched_detections and unmatched_trackers, in list order.
AssociateWith(dets, trks, mi) ==
    LET m == IouBatch(dets, trks)
        low(p) == IouBelow(m[p[1]][p[2]])
        rejected == SelectSeq(mi, low)
        kept == SelectSeq(mi, LAMBDA p : ~low(p))
        freeD == SeqOfSet({d \in DOMAIN dets : \A i \in DOMAIN mi : mi[i][1] # d})
        freeT == SeqOfSet({t \in DOMAIN trks : \A i \in DOMAIN mi : mi[i][2] # t})
    IN [matches |-> kept,
        unmatched_dets |-> freeD \o [i \in DOMAIN rejected |-> rejected[i][1]],
        unmatched_trks |-> freeT \o [i \in DOMAIN rejected |-> rejected[i][2]]]

\* _associate_detections_to_trackers: every result the call can return.
Associate(dets, trks) ==
    IF Len(trks) = 0
    THEN {[matches |-> <<>>, unmatched_dets |-> SeqOfSet(DOMAIN dets),
           unmatched_trks |-> <<>>]}
    ELSE {AssociateWith(dets, trks, mi) : mi \in MatchedIndices(dets, trks)}

\* Lines 130-141: predict every tracker; a tracker whose predicted box holds
\* a NaN is popped, and only the rows without NaN or infinity are kept for
\* the association.
PredictAll(T) == [i \in DOMAIN T |-> KalmanPredict(T[i])]
PredictedRows(P) ==
    LET finite == SelectSeq(P, LAMBDA t : BoxClass(t.kf) = "finite")
    IN [i \in DOMAIN finite |-> ConvertXToBBox(finite[i].kf)]
AfterPop(P) == SelectSeq(P, LAMBDA t : BoxClass(t.kf) # "nan")

RECURSIVE ApplyMatches(_, _, _)
\* Lines 149-150: trackers[m[1]].update(detections[m[0]]) for every match.
ApplyMatches(T, dets, matches) ==
    IF matches = <<>> THEN {T}
    ELSE LET m == Head(matches)
         IN UNION {ApplyMatches([T EXCEPT ![m[2]] = u], dets, Tail(matches)) :
                      u \in KalmanUpdate(T[m[2]], dets[m[1]])}

\* Spawning for the first unmatched detection only.
Spawn_OnlyFirst(T, dets, ud, cnt) ==
    IF ud = <<>> THEN T
    ELSE Append(T, KalmanInit(dets[Head(ud)], cnt))

RECURSIVE Spawn_SameId(_, _, _, _)
\* Spawning without advancing the counter between two new trackers.
Spawn_SameId(T, dets, ud, cnt) ==
    IF ud = <<>> THEN T
    ELSE Spawn_SameId(Append(T, KalmanInit(dets[Head(ud)], cnt)), dets,
                      Tail(ud), cnt)

RECURSIVE Spawn(_, _, _, _)
\* Lines 153-155: a new tracker for every unmatched detection, in order.
Spawn(T, dets, ud, cnt) ==
    IF ud = <<>> THEN T
    ELSE Spawn(Append(T, KalmanInit(dets[Head(ud)], cnt)), dets, Tail(ud),
               cnt + 1)

\* Line 161: get_state, the class of the box and, when finite, the box.
GetState(trk) ==
    [class |-> BoxClass(trk.kf),
     box |-> IF BoxClass(trk.kf) = "finite" THEN ConvertXToBBox(trk.kf)
             ELSE <<>>]

\* Reporting every tracker matched or created in the call.
Reportable_AnyFresh(trk, fc) == trk.time_since_update < 1

\* Reporting a tracker one match before it is confirmed.
Reportable_OneShort(trk, fc) ==
    /\ trk.time_since_update < 1
    /\ (trk.hit_streak >= min_hits - 1 \/ fc <= min_hits)

\* Reporting without the start-up grace.
Reportable_NoGrace(trk, fc) ==
    trk.time_since_update < 1 /\ trk.hit_streak >= min_hits

\* Lines 162-164: the condition under which a tracker is reported.
Reportable(trk, fc) ==
    /\ trk.time_since_update < 1
    /\ (trk.hit_streak >= min_hits \/ fc <= min_hits)

\* Lines 158-172: the reported rows, last tracker first, identity + 1.
Report(T, fc) ==
    LET rep == SelectSeq(Reverse(T), LAMBDA t : Reportable(t, fc))
    IN [i \in DOMAIN rep |-> [bbox |-> GetState(rep[i]), id |-> rep[i].id + 1]]

\* Pruning one frame early.
Alive_OffByOne(trk) == ~(trk.time_since_update >= max_age)

\* Lines 167-168: the trackers that stay.
Alive(trk) == ~(trk.time_since_update > max_age)
\* Pruning left out.
Prune_KeepsAll(T) == T

Prune(T) == SelectSeq(T, Alive)

\* BoTSORT.update(dets) on trackers T at frame_count fc and
\* KalmanBoxTracker.count cnt: every outcome of the call.  dropped holds
\* the trackers the call popped, each with the line that popped it.
UpdateOutcomes(T, fc, cnt, dets) ==
    LET P == PredictAll(T)
        T1 == AfterPop(P)
        popped == {[trk |-> P[i], line |-> 141] :
                      i \in {j \in DOMAIN P : BoxClass(P[j].kf) = "nan"}}
    IN UNION {
         {LET T3 == Spawn(T2, dets, a.unmatched_dets, cnt)
          IN [trackers |-> Prune(T3),
              count |-> cnt + Len(a.unmatched_dets),
              frame_count |-> fc + 1,
              ret |-> Report(T3, fc + 1),
              dropped |-> popped \cup
                  {[trk |-> T3[i], line |-> 168] :
                      i \in {j \in DOMAIN T3 : ~Alive(T3[j])}}] :
              T2 \in ApplyMatches(T1, dets, a.matches)} :
         a \in Associate(dets, PredictedRows(P))}

\* ---------------------------------------------------------------- Session
\* Session.__init__.
NewSession(track_id, t) ==
    [track_id |-> track_id, start_time |-> t, last_seen |-> t,
     total_frames |-> 0, attention_frames |-> 0, distances |-> <<>>,
     age_estimates |-> <<>>, gender_estimates |-> <<>>,
     demographics_estimated |-> FALSE]

\* Session.update that counts every frame as an attention frame.
SessionUpdate_AlwaysLooking(s, is_looking, distance_cm, t) ==
    [s EXCEPT !.last_seen = t,
              !.total_frames = s.total_frames + 1,
              !.attention_frames = s.attention_frames + 1,
              !.distances = IF distance_cm # NoDistance
                            THEN Append(s.distances, distance_cm)
                            ELSE s.distances]

\* Session.update at time t.
SessionUpdate(s, is_looking, distance_cm, t) ==
    [s EXCEPT !.last_seen = t,
              !.total_frames = s.total_frames + 1,
              !.attention_frames = IF is_looking THEN s.attention_frames + 1
                                   ELSE s.attention_frames,
              !.distances = IF distance_cm # NoDistance
                            THEN Append(s.distances, distance_cm)
                            ELSE s.distances]

\* Session.add_demographic_estimate.
AddDemographicEstimate(s, age_group, gender) ==
    [s EXCEPT !.age_estimates = IF age_group # None
                                THEN Append(s.age_estimates, age_group)
                                ELSE s.age_estimates,
              !.gender_estimates = IF gender # None
                                   THEN Append(s.gender_estimates, gender)
                                   ELSE s.gender_estimates,
              !.demographics_estimated = TRUE]

\* A variant of is_expired that already expires a session whose gap equals
\* the timeout.
IsExpired_AtTimeout(s, t) ==
    (t - s.last_seen) >= session_timeout * TicksPerSecond

\* A variant of is_expired that allows one tick more than the timeout.
IsExpired_Late(s, t) ==
    (t - s.last_seen) > session_timeout * TicksPerSecond + 1

\* Session.is_expired at time t (timeout in seconds, t in ticks).
IsExpired(s, t) == (t - s.last_seen) > session_timeout * TicksPerSecond

\* Session.get_duration_seconds: int() of the seconds between start and
\* last observation.
GetDurationSeconds(s) == (s.last_seen - s.start_time) \div TicksPerSecond

\* Session.get_attention_seconds(fps=30.0): the quotient, kept exact.
GetAttentionSeconds(s) == [num |-> s.attention_frames, den |-> DefaultFps]

RECURSIVE SumSeq(_)
SumSeq(q) == IF q = <<>> THEN 0 ELSE Head(q) + SumSeq(Tail(q))

\* Session.get_avg_distance_cm: int(np.mean(distances)), 0 without any.
GetAvgDistanceCm(s) ==
    IF s.distances = <<>> THEN 0
    ELSE SumSeq(s.distances) \div Len(s.distances)

\* get_most_common_age_group / get_most_common_gender: max over the set of
\* the votes by their count; among several values of the largest count the
\* one the set yields first, which is left open.
MostCommon(votes) ==
    LET n(v) == Cardinality({i \in DOMAIN votes : votes[i] = v})
    IN IF votes = <<>> THEN {"unknown"}
       ELSE {v \in Range(votes) : \A u \in Range(votes) : n(v) >= n(u)}

\* datetime.fromtimestamp(start_time).isoformat() + "Z".
IsoFormatZ(t) == [isoformat |-> t, suffix |-> "Z"]

\* A variant of to_payload that stamps the payload with the track identity.
ToPayloads_WithTrackId(s, dev, firmware, model) ==
    {[device_id |-> dev,
      start_time |-> IsoFormatZ(s.start_time),
      duration_seconds |-> GetDurationSeconds(s),
      attention_seconds |-> GetAttentionSeconds(s),
      demographics |-> [age_group |-> a, gender_estimation |-> g,
                        distance_cm |-> GetAvgDistanceCm(s)],
      meta |-> [firmware_version |-> firmware, model_version |-> model,
                tracker_version |-> "BoT-SORT", track_id |-> s.track_id]] :
        a \in MostCommon(s.age_estimates),
        g \in MostCommon(s.gender_estimates)}

\* Session.to_payload: the payloads the call can return.
ToPayloads(s, dev, firmware, model) ==
    {[device_id |-> dev,
      start_time |-> IsoFormatZ(s.start_time),
      duration_seconds |-> GetDurationSeconds(s),
      attention_seconds |-> GetAttentionSeconds(s),
      demographics |-> [age_group |-> a, gender_estimation |-> g,
                        distance_cm |-> GetAvgDistanceCm(s)],
      meta |-> [firmware_version |-> firmware, model_version |-> model,
                tracker_version |-> "BoT-SORT"]] :
        a \in MostCommon(s.age_estimates),
        g \in MostCommon(s.gender_estimates)}

\* The fields SessionPayload requires (Field(...)) of a posted payload.
SchemaFields ==
    {"device_id", "start_time", "duration_seconds", "attention_seconds",
     "coordinates", "demographics", "meta"}

\* ------------------------------------------------------- ingestion schema
\* A validation error of pydantic: the field and the kind of error.
Err(loc, type) == [loc |-> loc, type |-> type]

\* valid_groups of validate_age_group and valid_genders of validate_gender.
valid_groups ==
    {"0-17", "18-24", "25-34", "35-44", "45-54", "55-64", "65+", "unknown"}
valid_genders == {"male", "female", "unknown"}

\* A Demographics that takes any gender_estimation.
ValidateDemographics_AnyGender(d) ==
    {Err("age_group", "value_error") : x \in {d.age_group} \ valid_groups}
    \cup {Err("distance_cm", "greater_than_equal") :
             x \in {y \in {d.distance_cm} : y < 0}}

\* Demographics(age_group, gender_estimation, distance_cm): the errors of
\* the validation; the object is built when there is none.
ValidateDemographics(d) ==
    {Err("age_group", "value_error") : x \in {d.age_group} \ valid_groups}
    \cup {Err("gender_estimation", "value_error") :
             x \in {d.gender_estimation} \ valid_genders}
    \cup {Err("distance_cm", "greater_than_equal") :
             x \in {y \in {d.distance_cm} : y < 0}}

\* Coordinates(x, y): both at least 0.
ValidateCoordinates(c) ==
    {Err("coordinates.x", "greater_than_equal") : x \in {y \in {c.x} : y < 0}}
    \cup {Err("coordinates.y", "greater_than_equal") :
             x \in {y \in {c.y} : y < 0}}

\* A SessionPayload without the validator of attention_seconds.
ValidatePayload_NoAttentionCheck(a) ==
    LET durationOk == a.duration_seconds >= 0
    IN {Err("device_id", "greater_than_equal") :
           x \in {y \in {a.device_id} : y < 1}}
       \cup {Err("duration_seconds", "greater_than_equal") :
                x \in {y \in {a.duration_seconds} : y < 0}}
       \cup {Err("attention_seconds", "greater_than_equal") :
                x \in {y \in {a.attention_seconds} : y.num < 0}}
       \cup (IF a.coordinates = <<>>
             THEN {Err("coordinates", "missing")}
             ELSE ValidateCoordinates(a.coordinates[1]))
       \cup ValidateDemographics(a.demographics)

\* SessionPayload(**a): the errors of the validation, the fields in their
\* order of declaration; the object is built when there is none.  The
\* keyword coordinates is a sequence, empty when it is not supplied.
\* validate_attention runs when attention_seconds has passed ge=0.0, and
\* compares only when duration_seconds has been validated before it.
ValidatePayload(a) ==
    LET durationOk == a.duration_seconds >= 0
    IN {Err("device_id", "greater_than_equal") :
           x \in {y \in {a.device_id} : y < 1}}
       \cup {Err("duration_seconds", "greater_than_equal") :
                x \in {y \in {a.duration_seconds} : y < 0}}
       \cup {Err("attention_seconds", "greater_than_equal") :
                x \in {y \in {a.attention_seconds} : y.num < 0}}
       \cup {Err("attention_seconds", "value_error") :
                x \in {y \in {a.attention_seconds} :
                         /\ y.num >= 0
                         /\ durationOk
                         /\ y.num > a.duration_seconds * y.den}}
       \cup (IF a.coordinates = <<>>
             THEN {Err("coordinates", "missing")}
             ELSE ValidateCoordinates(a.coordinates[1]))
       \cup ValidateDemographics(a.demographics)

\* SessionPayload.get_attention_rate, the quotient kept exact.
GetAttentionRate(p) ==
    IF p.duration_seconds = 0 THEN [num |-> 0, den |-> 1]
    ELSE [num |-> p.attention_seconds.num,
          den |-> p.attention_seconds.den * p.duration_seconds]

\* -------------------------------------------------------------------- API
\* A verify_api_key that also lets an empty header pass.
VerifyApiKey_AcceptsEmpty(x_api_key) == x_api_key \in {api_key, ""}

\* verify_api_key: the header passes when it equals the configured key.
VerifyApiKey(x_api_key) == x_api_key = api_key

\* An answer of POST /sessions: the status, and the session reference of a
\* SessionResponse (0 when there is none).
Answer(status, session_id) ==
    [status |-> status, success |-> status = 200, session_id |-> session_id]

\* A create_session that produces to Kafka before it inserts.
CreateSession_ProducesFirst(S, P, x_api_key, body, insert_ok, produce_ok) ==
    LET doc == body
        msg == [key |-> body.device_id, value |-> doc, state |-> "queued"]
        keep(status) == [store |-> S, produced |-> P,
                         response |-> Answer(status, 0)]
    IN IF ~VerifyApiKey(x_api_key) THEN keep(401)
       ELSE IF ValidatePayload(body) # {} THEN keep(422)
       ELSE IF ~produce_ok THEN keep(500)
       ELSE IF ~insert_ok
            THEN [store |-> S, produced |-> Append(P, msg),
                  response |-> Answer(500, 0)]
       ELSE [store |-> Append(S, doc), produced |-> Append(P, msg),
             response |-> Answer(200, Len(S) + 1)]

\* POST /sessions: verify_api_key, the validation of the body as a
\* SessionPayload, then create_session.  insert_ok: insert_one returns
\* (else insert_session raises); produce_ok: send_session returns (else it
\* raises).  S is the collection, P what was handed to the producer; the
\* session reference is the place of the document in the collection.
CreateSession(S, P, x_api_key, body, insert_ok, produce_ok) ==
    LET doc == body
        msg == [key |-> body.device_id, value |-> doc, state |-> "queued"]
        keep(status) == [store |-> S, produced |-> P,
                         response |-> Answer(status, 0)]
    IN IF ~VerifyApiKey(x_api_key) THEN keep(401)
       ELSE IF ValidatePayload(body) # {} THEN keep(422)
       ELSE IF ~insert_ok THEN keep(500)
       ELSE IF ~produce_ok
            THEN [store |-> Append(S, doc), produced |-> P,
                  response |-> Answer(500, 0)]
       ELSE [store |-> Append(S, doc), produced |-> Append(P, msg),
             response |-> Answer(200, Len(S) + 1)]

\* --------------------------------------------------------- SessionManager
\* The dict SessionManager.sessions is a sequence of entries
\* [key, val] in insertion order.
Keys(S) == {S[i].key : i \in DOMAIN S}
Lookup(S, k) == S[CHOOSE i \in DOMAIN S : S[i].key = k].val

\* An update_session that records an estimate on every call, whatever the
\* estimator returned.
UpdateSession_AlwaysEstimates(S, track_id, is_looking, distance_cm, age_group, gender, t) ==
    LET S1 == IF track_id \notin Keys(S)
              THEN Append(S, [key |-> track_id, val |-> NewSession(track_id, t)])
              ELSE S
        i == CHOOSE j \in DOMAIN S1 : S1[j].key = track_id
        s1 == SessionUpdate(S1[i].val, is_looking, distance_cm, t)
    IN [S1 EXCEPT ![i].val = AddDemographicEstimate(s1, age_group, gender)]

\* SessionManager.update_session at time t.
UpdateSession(S, track_id, is_looking, distance_cm, age_group, gender, t) ==
    LET S1 == IF track_id \notin Keys(S)
              THEN Append(S, [key |-> track_id, val |-> NewSession(track_id, t)])
              ELSE S
        i == CHOOSE j \in DOMAIN S1 : S1[j].key = track_id
        s1 == SessionUpdate(S1[i].val, is_looking, distance_cm, t)
        s2 == IF age_group # None \/ gender # None
              THEN AddDemographicEstimate(s1, age_group, gender)
              ELSE s1
    IN [S1 EXCEPT ![i].val = s2]

\* get_expired_sessions that returns the expired sessions without deleting
\* them from the dict.
GetExpiredSessions_KeepsEntries(S, t) ==
    LET gone == SelectSeq(S, LAMBDA e : IsExpired(e.val, t))
    IN [expired |-> [i \in DOMAIN gone |-> gone[i].val],
        removed |-> {gone[i].key : i \in DOMAIN gone},
        sessions |-> S]

\* SessionManager.get_expired_sessions at time t: the sessions returned and
\* the entries left.
GetExpiredSessions(S, t) ==
    LET gone == SelectSeq(S, LAMBDA e : IsExpired(e.val, t))
    IN [expired |-> [i \in DOMAIN gone |-> gone[i].val],
        removed |-> {gone[i].key : i \in DOMAIN gone},
        sessions |-> SelectSeq(S, LAMBDA e : ~IsExpired(e.val, t))]

\* The filter of generate_payloads that lets every session through.
TooShort_None(s) == GetDurationSeconds(s) < 0

\* Lines 229-232: a session of less than one second is skipped.
TooShort(s) == GetDurationSeconds(s) < 1

RECURSIVE GeneratePayloads(_)
\* SessionManager.generate_payloads: the lists the call can return.
GeneratePayloads(expired_sessions) ==
    IF expired_sessions = <<>> THEN {<<>>}
    ELSE LET s == Head(expired_sessions)
             rest == GeneratePayloads(Tail(expired_sessions))
         IN IF TooShort(s) THEN rest
            ELSE {<<p>> \o r :
                    p \in ToPayloads(s, device_id, firmware_version,
                                     model_version),
                    r \in rest}

\* Lines 185-189 of the frame loop: the sweep, then the payloads of what it
\* returned.
SweepOutcomes(S, t) ==
    LET g == GetExpiredSessions(S, t)
    IN {[sessions |-> g.sessions, expired |-> g.expired,
         removed |-> g.removed, payloads |-> ps] :
           ps \in (IF g.expired # <<>> THEN GeneratePayloads(g.expired)
                   ELSE {<<>>})}

\* ------------------------------------------------------------ frame loop
\* What one http_client.post can do: answer 200, answer another status, or
\* raise.
PostResults == {"200", "non200", "exception"}

\* A _send_payloads that gives up the batch at the first failed post.
SendPayloads_StopsAtFailure(ps) ==
    {[i \in 1..n |-> [payload |-> ps[i],
                      result |-> IF i < n THEN "200" ELSE r]] :
        n \in (IF ps = <<>> THEN {0} ELSE DOMAIN ps),
        r \in (PostResults \ {"200"})}
    \cup {[i \in DOMAIN ps |-> [payload |-> ps[i], result |-> "200"]]}

\* EdgeProcessor._send_payloads: the requests made, one per payload in
\* order, each with what became of it.
SendPayloads(ps) ==
    {[i \in DOMAIN ps |-> [payload |-> ps[i], result |-> r[i]]] :
        r \in [DOMAIN ps -> PostResults]}

\* A frame loop that runs the demographics estimator for every reported
\* row, whether or not its session already has an estimate.
RECURSIVE ProcessTracks_EstimatesAlways(_, _, _, _, _)
ProcessTracks_EstimatesAlways(S, rows, obs, k, t) ==
    IF k > Len(rows) THEN [sessions |-> S, crashed |-> FALSE]
    ELSE LET track_id == rows[k].id
             estimate == obs[k].demographics
             age_group == IF estimate[1] # "unknown" THEN estimate[1] ELSE None
             gender == IF estimate[2] # "unknown" THEN estimate[2] ELSE None
         IN IF rows[k].bbox.class # "finite"
            THEN [sessions |-> S, crashed |-> TRUE]
            ELSE IF obs[k].distance_cm # NoDistance
                    /\ obs[k].distance_cm > max_detection_distance
            THEN ProcessTracks_EstimatesAlways(S, rows, obs, k + 1, t)
            ELSE ProcessTracks_EstimatesAlways(
                    UpdateSession(S, track_id, obs[k].is_looking,
                                  obs[k].distance_cm, age_group, gender, t),
                    rows, obs, k + 1, t)

\* Lines 125-182: the reported rows, in order, at time t.  obs[k] is what
\* camera, gaze and demographics estimators yield for row k.  A row whose
\* box is not finite raises in int((y1 + y2) / 2) and ends the loop.
RECURSIVE ProcessTracks(_, _, _, _, _)
ProcessTracks(S, rows, obs, k, t) ==
    IF k > Len(rows) THEN [sessions |-> S, crashed |-> FALSE]
    ELSE LET track_id == rows[k].id
             known == track_id \in Keys(S)
             estimate == IF ~known \/ ~Lookup(S, track_id).demographics_estimated
                         THEN obs[k].demographics
                         ELSE <<"unknown", "unknown">>
             age_group == IF estimate[1] # "unknown" THEN estimate[1] ELSE None
             gender == IF estimate[2] # "unknown" THEN estimate[2] ELSE None
         IN IF rows[k].bbox.class # "finite"
            THEN [sessions |-> S, crashed |-> TRUE]
            ELSE IF obs[k].distance_cm # NoDistance
                    /\ obs[k].distance_cm > max_detection_distance
            THEN ProcessTracks(S, rows, obs, k + 1, t)
            ELSE ProcessTracks(
                    UpdateSession(S, track_id, obs[k].is_looking,
                                  obs[k].distance_cm, age_group, gender, t),
                    rows, obs, k + 1, t)

\* ------------------------------------------------------------------ state
VARIABLES
    trackers,       \* BoTSORT.trackers
    frame_count,    \* BoTSORT.frame_count
    count,          \* KalmanBoxTracker.count
    detections,     \* the batch of the last update call
    ret,            \* what the last update call returned
    dropped,        \* the trackers the last update call popped
    other,          \* a second BoTSORT instance: its trackers and frame_count
    sessions,       \* SessionManager.sessions
    completed_count,\* SessionManager.completed_count
    expired,        \* expired_sessions of the last step (empty if none)
    payloads,       \* the payloads of the last step (empty if none)
    destroyed,      \* the keys get_expired_sessions has ever removed
    now,            \* time.time(), in ticks
    running,        \* EdgeProcessor.running
    fps,            \* SessionManager.fps
    posts,          \* the requests _send_payloads made in the last step
    store,          \* the documents of the MongoDB collection, in order
    produced,       \* the messages handed to the Kafka producer, in order
    request,        \* the last POST /sessions request (empty before any)
    response,       \* the answer to it
    args,           \* the arguments of a function called on its own
    out             \* what that call returned (empty before the call)

tvars == <<trackers, frame_count, count, detections, ret, dropped, other>>
svars == <<sessions, completed_count, expired, payloads, destroyed, posts>>
vars == <<trackers, frame_count, count, detections, ret, dropped, other,
          sessions, completed_count, expired, payloads, destroyed,
          now, running, fps, posts, store, produced, request, response,
          args, out>>
fvars == <<args, out>>
avars == <<store, produced, request, response>>

\* The API server after startup: nothing stored, nothing produced.
ApiInit ==
    /\ store = <<>>
    /\ produced = <<>>
    /\ request = <<>>
    /\ response = <<>>

\* BoTSORT.__init__, before any KalmanBoxTracker exists.
TrackerInit ==
    /\ trackers = <<>>
    /\ frame_count = 0
    /\ count = 0
    /\ detections = <<>>
    /\ ret = <<>>
    /\ dropped = {}
    /\ other = [trackers |-> <<>>, frame_count |-> 0]

\* SessionManager.__init__.
SessionInit ==
    /\ sessions = <<>>
    /\ completed_count = 0
    /\ expired = <<>>
    /\ payloads = <<>>
    /\ destroyed = {}

\* EdgeProcessor.__init__ and start.
Init ==
    /\ TrackerInit
    /\ SessionInit
    /\ now = 0
    /\ running = TRUE
    /\ posts = <<>>
    /\ fps = realsense_fps
    /\ ApiInit
    /\ args = <<>>
    /\ out = <<>>

\* BoTSORT.update(dets), in a run of at most maxFrames calls.
TrackerUpdate(dets, maxFrames) ==
    /\ frame_count < maxFrames
    /\ \E o \in UpdateOutcomes(trackers, frame_count, count, dets) :
          /\ o.count <= MaxIds
          /\ trackers' = o.trackers
          /\ frame_count' = o.frame_count
          /\ count' = o.count
          /\ ret' = o.ret
          /\ dropped' = o.dropped
    /\ detections' = dets
    /\ other' = other

\* update(dets) of the second BoTSORT instance, in a run of at most
\* maxFrames calls; KalmanBoxTracker.count is the class attribute both
\* instances draw identities from.
OtherUpdate(dets, maxFrames) ==
    /\ other.frame_count < maxFrames
    /\ \E o \in UpdateOutcomes(other.trackers, other.frame_count, count,
                                dets) :
          /\ o.count <= MaxIds
          /\ other' = [trackers |-> o.trackers,
                       frame_count |-> o.frame_count]
          /\ count' = o.count
    /\ UNCHANGED <<trackers, frame_count, detections, ret, dropped>>

\* Two trackers in one process, each fed the one-person scene, their update
\* calls interleaved in any order.
TwoNext ==
    /\ \/ \E dets \in Batches(LoneBoxes) : TrackerUpdate(dets, MaxFrames)
       \/ \E dets \in Batches(LoneBoxes) : OtherUpdate(dets, MaxFrames)
    /\ UNCHANGED <<svars, now, running, fvars, fps, avars>>
SpecTwo == Init /\ [][TwoNext]_vars

\* The tracker alone, fed the two-person scene.
TrackerNext ==
    /\ \E dets \in Batches(SceneBoxes) : TrackerUpdate(dets, MaxFrames)
    /\ UNCHANGED <<svars, now, running, fvars, fps, avars>>
SpecTracker == Init /\ [][TrackerNext]_vars

\* The tracker alone, fed the one-person scene for a longer run.
LoneNext ==
    /\ \E dets \in Batches(LoneBoxes) : TrackerUpdate(dets, LongFrames)
    /\ UNCHANGED <<svars, now, running, fvars, fps, avars>>
SpecLone == Init /\ [][LoneNext]_vars

\* The tracker alone, fed the overlapping boxes of scenario C: a wide box,
\* the same box shifted right by a quarter of its width (IoU 3/5 with it)
\* and shifted left by two thirds of its width (IoU 1/5 with it).
WideBox == <<8, 0, 20, 2>>
NearBox == <<11, 0, 23, 2>>
FarBox == <<0, 0, 12, 2>>
OverlapBatches ==
    {<<>>, <<WideBox>>, <<NearBox, FarBox>>, <<FarBox, NearBox>>}
OverlapNext ==
    /\ \E dets \in OverlapBatches : TrackerUpdate(dets, MaxFrames)
    /\ UNCHANGED <<svars, now, running, fvars, fps, avars>>
SpecOverlap == Init /\ [][OverlapNext]_vars

\* _iou_batch called on its own with one box against one box, both with
\* integer corners in 0..MaxCoord, x1 <= x2 and y1 <= y2.
GridBoxes ==
    {b \in (0..MaxCoord) \X (0..MaxCoord) \X (0..MaxCoord) \X (0..MaxCoord) :
        b[1] <= b[3] /\ b[2] <= b[4]}
IouInit ==
    /\ TrackerInit
    /\ SessionInit
    /\ now = 0
    /\ running = TRUE
    /\ posts = <<>>
    /\ fps = realsense_fps
    /\ ApiInit
    /\ args \in [bb_test : {<<b>> : b \in GridBoxes},
                 bb_gt : {<<b>> : b \in GridBoxes}]
    /\ out = <<>>
IouCall ==
    /\ out = <<>>
    /\ out' = IouBatch(args.bb_test, args.bb_gt)
    /\ UNCHANGED <<tvars, svars, now, running, args, fps, avars>>
SpecIou == IouInit /\ [][IouCall]_vars

\* _associate_detections_to_trackers called on its own: boxes of one height
\* on a line, with IoUs of 1, 5/8, 3/7, 3/10, 1/4, 2/11 and 0 among them;
\* a detection may have no width, a predicted row has a positive area.
AssocDetBoxes ==
    {<<0, 0, 5, 2>>, <<5, 0, 10, 2>>, <<2, 0, 10, 2>>, <<9, 0, 9, 2>>}
AssocTrkBoxes == {<<0, 0, 5, 2>>, <<3, 0, 8, 2>>, <<8, 0, 13, 2>>}
AssocInit ==
    /\ TrackerInit
    /\ SessionInit
    /\ now = 0
    /\ running = TRUE
    /\ posts = <<>>
    /\ fps = realsense_fps
    /\ ApiInit
    /\ args \in [detections :
                    UNION {[1..n -> AssocDetBoxes] : n \in 0..MaxDets},
                 trackers :
                    UNION {[1..k -> AssocTrkBoxes] : k \in 0..MaxDets}]
    /\ out = <<>>
AssocCall ==
    /\ out = <<>>
    /\ \E a \in Associate(args.detections, args.trackers) : out' = <<a>>
    /\ UNCHANGED <<tvars, svars, now, running, args, fps, avars>>
SpecAssoc == AssocInit /\ [][AssocCall]_vars

\* get_most_common_age_group / get_most_common_gender called on their own
\* with any list of age votes or of gender votes.
AgeVotes == {"18-24", "25-34", "35-44"}
GenderVotes == {"male", "female"}
VotesInit ==
    /\ TrackerInit
    /\ SessionInit
    /\ now = 0
    /\ running = TRUE
    /\ posts = <<>>
    /\ fps = realsense_fps
    /\ ApiInit
    /\ args \in [votes : UNION {[1..n -> AgeVotes] : n \in 0..MaxVotes}
                           \cup UNION {[1..n -> GenderVotes] :
                                         n \in 0..MaxVotes}]
    /\ out = <<>>
MostCommonCall ==
    /\ out = <<>>
    /\ \E v \in MostCommon(args.votes) : out' = <<v>>
    /\ UNCHANGED <<tvars, svars, now, running, args, fps, avars>>
SpecVotes == VotesInit /\ [][MostCommonCall]_vars

\* Demographics(...) constructed on its own: every listed value, and values
\* that are not listed ("55+" is the last range of the field description).
AgeInputs == valid_groups \cup {"55+", "invalid", ""}
GenderInputs == valid_genders \cup {"other", "Male"}
DistanceInputs == {-1, 0, 180}
DemographicsInit ==
    /\ TrackerInit
    /\ SessionInit
    /\ now = 0
    /\ running = TRUE
    /\ posts = <<>>
    /\ fps = realsense_fps
    /\ ApiInit
    /\ args \in [age_group : AgeInputs, gender_estimation : GenderInputs,
                  distance_cm : DistanceInputs]
    /\ out = <<>>
DemographicsCall ==
    /\ out = <<>>
    /\ out' = <<ValidateDemographics(args)>>
    /\ UNCHANGED <<tvars, svars, now, running, args, fps, avars>>
SpecDemographics == DemographicsInit /\ [][DemographicsCall]_vars

\* SessionPayload(...) constructed on its own, then get_attention_rate of
\* the object if there is one.  Seconds of attention are given in halves.
PayloadInputs ==
    [device_id : {0, 1, device_id},
     duration_seconds : -1..MaxSeconds,
     attention_seconds : [num : -1..(2 * MaxSeconds + 1), den : {2}],
     coordinates : {<<>>, <<[x |-> 0, y |-> 0]>>, <<[x |-> -1, y |-> 0]>>},
     demographics : {[age_group |-> "25-34", gender_estimation |-> "male",
                      distance_cm |-> 180],
                     [age_group |-> "invalid", gender_estimation |-> "male",
                      distance_cm |-> 180]}]
PayloadInit ==
    /\ TrackerInit
    /\ SessionInit
    /\ now = 0
    /\ running = TRUE
    /\ posts = <<>>
    /\ fps = realsense_fps
    /\ ApiInit
    /\ args \in PayloadInputs
    /\ out = <<>>
PayloadCall ==
    /\ out = <<>>
    /\ out' = <<[errors |-> ValidatePayload(args),
                 rate |-> IF ValidatePayload(args) = {}
                          THEN <<GetAttentionRate(args)>> ELSE <<>>]>>
    /\ UNCHANGED <<tvars, svars, now, running, args, fps, avars>>
SpecPayload == PayloadInit /\ [][PayloadCall]_vars

\* The API server alone.  The bodies posted: two payloads the schema
\* accepts and one without coordinates; the keys: the configured one, another
\* one and the empty string.
ApiBodies ==
    {[device_id |-> d, duration_seconds |-> 1,
      attention_seconds |-> [num |-> 1, den |-> 2], coordinates |-> c,
      demographics |-> [age_group |-> "25-34", gender_estimation |-> "male",
                        distance_cm |-> 180]] :
        d \in {1, device_id}, c \in {<<[x |-> 0, y |-> 0]>>}}
    \cup {[device_id |-> device_id, duration_seconds |-> 1,
           attention_seconds |-> [num |-> 1, den |-> 2], coordinates |-> <<>>,
           demographics |-> [age_group |-> "25-34",
                             gender_estimation |-> "male",
                             distance_cm |-> 180]]}
ApiKeys == {api_key, "wrong-key", ""}

\* One POST /sessions request, handled to its answer.
PostSessions ==
    /\ Len(store) < MaxRequests
    /\ \E k \in ApiKeys, b \in ApiBodies, i \in BOOLEAN, p \in BOOLEAN :
          LET r == CreateSession(store, produced, k, b, i, p)
          IN /\ store' = r.store
             /\ produced' = r.produced
             /\ response' = <<r.response>>
             /\ request' = <<[x_api_key |-> k, body |-> b, insert_ok |-> i,
                              produce_ok |-> p]>>
    /\ UNCHANGED <<tvars, svars, now, running, fvars, fps>>

\* _delivery_callback: the broker confirms a queued message, or the
\* delivery fails; either is only logged.
DeliveryReport ==
    /\ \E j \in DOMAIN produced, e \in BOOLEAN :
          /\ produced[j].state = "queued"
          /\ produced' = [produced EXCEPT
                            ![j].state = IF e THEN "failed" ELSE "delivered"]
    /\ UNCHANGED <<store, request, response>>
    /\ UNCHANGED <<tvars, svars, now, running, fvars, fps>>

ApiNext == PostSessions \/ DeliveryReport
SpecApi == Init /\ [][ApiNext]_vars

\* The tracker alone, fed a person-sized box and a box so thin and tall
\* that its ratio w / h underflows while its area w * h is positive.
ThinTallBox == <<0, 0, 1, UnderflowRatio>>
ThinBoxes == {ThinTallBox, <<5, 0, 7, 2>>}
ThinNext ==
    /\ \E dets \in Batches(ThinBoxes) : TrackerUpdate(dets, MaxFrames)
    /\ UNCHANGED <<svars, now, running, fvars, fps, avars>>
SpecThin == Init /\ [][ThinNext]_vars

\* Time passes: one tick of the clock.
Tick ==
    /\ now < MaxTime
    /\ now' = now + 1
    /\ expired' = <<>>
    /\ payloads' = <<>>
    /\ posts' = <<>>
    /\ UNCHANGED <<tvars, sessions, completed_count, destroyed, running,
                   fvars, fps, avars>>

\* SessionManager.update_session, for a session of fewer than maxObs frames.
Observe(track_id, is_looking, distance_cm, age_group, gender, maxObs) ==
    /\ track_id \in Keys(sessions)
          => Lookup(sessions, track_id).total_frames < maxObs
    /\ sessions' = UpdateSession(sessions, track_id, is_looking, distance_cm,
                                 age_group, gender, now)
    /\ expired' = <<>>
    /\ payloads' = <<>>
    /\ posts' = <<>>
    /\ UNCHANGED <<completed_count, destroyed>>
    /\ UNCHANGED <<tvars, now, running, fvars, fps, avars>>

\* A sweep that counts as completed only the sessions that yield a payload.
Sweep_CountsPayloads ==
    /\ \E w \in SweepOutcomes(sessions, now) :
          /\ sessions' = w.sessions
          /\ completed_count' = completed_count + Len(w.payloads)
          /\ expired' = w.expired
          /\ payloads' = w.payloads
          /\ destroyed' = destroyed \cup w.removed
    /\ posts' = <<>>
    /\ UNCHANGED <<tvars, now, running, fvars, fps, avars>>

\* get_expired_sessions, then generate_payloads of what it returned.
Sweep ==
    /\ \E w \in SweepOutcomes(sessions, now) :
          /\ sessions' = w.sessions
          /\ completed_count' = completed_count + Len(w.expired)
          /\ expired' = w.expired
          /\ payloads' = w.payloads
          /\ destroyed' = destroyed \cup w.removed
    /\ posts' = <<>>
    /\ UNCHANGED <<tvars, now, running, fvars, fps, avars>>

\* The session manager alone, called with any observations.
SessionIds == {1, 2}
ObsInputs ==
    {[is_looking |-> TRUE, distance_cm |-> 100,
      age_group |-> "25-34", gender |-> "male"],
     [is_looking |-> FALSE, distance_cm |-> NoDistance,
      age_group |-> None, gender |-> None]}
SessionNext ==
    \/ \E k \in SessionIds, o \in ObsInputs :
          Observe(k, o.is_looking, o.distance_cm, o.age_group, o.gender,
                  MaxObs)
    \/ Tick
    \/ Sweep
SpecSession == Init /\ [][SessionNext]_vars

\* The session manager alone, called with observations that carry an age
\* group only, a gender only, both or neither.
PartialInputs ==
    ObsInputs \cup
    {[is_looking |-> TRUE, distance_cm |-> NoDistance,
      age_group |-> "25-34", gender |-> None],
     [is_looking |-> FALSE, distance_cm |-> 100,
      age_group |-> None, gender |-> "male"]}
PartialNext ==
    \/ \E k \in SessionIds, o \in PartialInputs :
          Observe(k, o.is_looking, o.distance_cm, o.age_group, o.gender,
                  MaxObs)
    \/ Tick
    \/ Sweep
SpecPartial == Init /\ [][PartialNext]_vars

\* Lines 184-189 of run_loop: the sweep, the payloads of what it returned
\* and their posting.
SweepSend ==
    /\ \E w \in SweepOutcomes(sessions, now) :
          /\ sessions' = w.sessions
          /\ completed_count' = completed_count + Len(w.expired)
          /\ expired' = w.expired
          /\ payloads' = w.payloads
          /\ destroyed' = destroyed \cup w.removed
          /\ posts' \in SendPayloads(w.payloads)
    /\ UNCHANGED <<tvars, now, running, fvars, fps, avars>>

\* The tail of the frame loop (lines 176-189) for any reported tracks: the
\* session updates of a frame, the sweep and the posting of its payloads.
SendNext ==
    \/ \E k \in SessionIds, o \in ObsInputs :
          Observe(k, o.is_looking, o.distance_cm, o.age_group, o.gender,
                  MaxObs)
    \/ Tick
    \/ SweepSend
SpecSend == Init /\ [][SendNext]_vars

\* The session manager alone, constructed with any of these frame rates.
FpsValues == {15, 30, 60}
FpsInit ==
    /\ TrackerInit
    /\ SessionInit
    /\ now = 0
    /\ running = TRUE
    /\ posts = <<>>
    /\ fps \in FpsValues
    /\ ApiInit
    /\ args = <<>>
    /\ out = <<>>
SpecFps == FpsInit /\ [][SessionNext]_vars

\* The session manager alone, one session observed for many frames.
AttentionNext ==
    \/ \E l \in BOOLEAN : Observe(1, l, NoDistance, None, None, LongObs)
    \/ Tick
    \/ Sweep
SpecAttention == Init /\ [][AttentionNext]_vars

\* What the estimators can yield for one reported row of the frame loop.
LoopObs ==
    [distance_cm : {100, 600}, is_looking : BOOLEAN,
     demographics : {<<"unknown", "unknown">>, <<"25-34", "male">>}]

\* One pass of run_loop with a frame (lines 115-189).
Frame(dets) ==
    /\ running
    /\ frame_count < LoopFrames
    /\ \E o \in UpdateOutcomes(trackers, frame_count, count, dets) :
          /\ o.count <= MaxIds
          /\ trackers' = o.trackers
          /\ frame_count' = o.frame_count
          /\ count' = o.count
          /\ ret' = o.ret
          /\ dropped' = o.dropped
          /\ \E obs \in [DOMAIN o.ret -> LoopObs] :
                LET r == ProcessTracks(sessions, o.ret, obs, 1, now)
                IN IF r.crashed
                   THEN /\ sessions' = r.sessions
                        /\ running' = FALSE
                        /\ UNCHANGED <<completed_count, expired, payloads,
                                       destroyed, posts>>
                   ELSE /\ \E w \in SweepOutcomes(r.sessions, now) :
                              /\ sessions' = w.sessions
                              /\ completed_count'
                                    = completed_count + Len(w.expired)
                              /\ expired' = w.expired
                              /\ payloads' = w.payloads
                              /\ destroyed' = destroyed \cup w.removed
                              /\ posts' \in SendPayloads(w.payloads)
                        /\ running' = running
    /\ detections' = dets
    /\ other' = other
    /\ now' = now
    /\ UNCHANGED <<fvars, fps, avars>>

\* A way of stopping that first emits every session still in the map.
VideoEnd_Flushes ==
    /\ running
    /\ running' = FALSE
    /\ sessions' = <<>>
    /\ expired' = [i \in DOMAIN sessions |-> sessions[i].val]
    /\ completed_count' = completed_count + Len(sessions)
    /\ destroyed' = destroyed \cup Keys(sessions)
    /\ \E ps \in GeneratePayloads([i \in DOMAIN sessions |-> sessions[i].val]) :
          /\ payloads' = ps
          /\ posts' \in SendPayloads(ps)
    /\ UNCHANGED <<tvars, now, fvars, fps, avars>>

\* Lines 107-112: the video has ended.
VideoEnd ==
    /\ running
    /\ running' = FALSE
    /\ UNCHANGED <<tvars, svars, now, fvars, fps, avars>>

\* The frame loop of the edge device.
Next ==
    \/ \E dets \in Batches(LoneBoxes) : Frame(dets)
    \/ (running /\ Tick)
    \/ VideoEnd
Spec == Init /\ [][Next]_vars

\* ================================================================ claims
Ids(T) == {T[i].id : i \in DOMAIN T}

\* C1: across any sequence of update calls every newly created track gets
\* an identity that is at least KalmanBoxTracker.count as it stood before
\* the call, hence greater than every identity assigned before it (all of
\* which lie below the counter); the live identities are pairwise distinct,
\* also after earlier tracks have been removed.
C1_IdentitiesFresh ==
    /\ [](/\ \A i \in DOMAIN trackers : trackers[i].id < count
          /\ \A i, j \in DOMAIN trackers :
                i # j => trackers[i].id # trackers[j].id)
    /\ [][\A i \in DOMAIN trackers' :
            trackers'[i].id \notin Ids(trackers) =>
                /\ trackers'[i].id >= count
                /\ trackers'[i].id < count'
                /\ trackers'[i].age = 0]_vars

\* C1 witness: a track created in the last call, after the track with the
\* first identity has been removed.
C1_Witness ==
    /\ 0 \notin Ids(trackers)
    /\ \E i \in DOMAIN trackers : trackers[i].age = 0 /\ trackers[i].id > 0

\* The sessions of a list, each relabelled with the track identity k.
Relabel(ss, k) == [i \in DOMAIN ss |-> [ss[i] EXCEPT !.track_id = k]]
OtherIds == {0} \cup SessionIds

\* C2: the payload of a session does not depend on its track identity: a
\* session relabelled with any other track_id yields the same payloads, be
\* it live or just expired, the payloads generated by a sweep are payloads
\* of the relabelled sessions as well, and no payload has a track_id field.
C2_PayloadIgnoresTrackId ==
    /\ \A i \in DOMAIN sessions, k \in OtherIds :
          ToPayloads([sessions[i].val EXCEPT !.track_id = k],
                     device_id, firmware_version, model_version)
            = ToPayloads(sessions[i].val,
                         device_id, firmware_version, model_version)
    /\ \A k \in OtherIds :
          expired # <<>> => payloads \in GeneratePayloads(Relabel(expired, k))
    /\ \A i \in DOMAIN payloads :
          /\ "track_id" \notin DOMAIN payloads[i]
          /\ "track_id" \notin DOMAIN payloads[i].meta
          /\ "track_id" \notin DOMAIN payloads[i].demographics

\* C2 witness: one sweep returned two sessions of different track identity
\* and otherwise equal attributes, and their two payloads are equal.
C2_Witness ==
    /\ Len(expired) = 2
    /\ expired[1].track_id # expired[2].track_id
    /\ [expired[1] EXCEPT !.track_id = 0] = [expired[2] EXCEPT !.track_id = 0]
    /\ Len(payloads) = 2
    /\ payloads[1] = payloads[2]

\* C3 as claimed: every payload generate_payloads returned has
\* attention_seconds <= duration_seconds.
C3_Original ==
    \A i \in DOMAIN payloads :
        payloads[i].attention_seconds.num
            <= payloads[i].duration_seconds * payloads[i].attention_seconds.den

\* C4 as claimed: every payload has all the fields SessionPayload requires.
C4_Original ==
    \A i \in DOMAIN payloads : SchemaFields \subseteq DOMAIN payloads[i]

C6_Original == Keys(sessions) \cap destroyed = {}

\* C11: a sweep returns, once each, exactly the sessions of the map with
\* now - last_seen > timeout and removes exactly those from the map; every
\* returned session that was observed for at least timeout seconds yields
\* exactly one payload; and no sweep at any later time returns a session
\* this sweep has returned.
C11_SweepReturnsExpiredOnce ==
    \A w \in SweepOutcomes(sessions, now) :
        LET late(s) == now - s.last_seen > session_timeout * TicksPerSecond
            full(s) == s.last_seen - s.start_time
                          >= session_timeout * TicksPerSecond
            times(s) == Cardinality({j \in DOMAIN w.expired : w.expired[j] = s})
        IN /\ \A i \in DOMAIN sessions :
                 IF late(sessions[i].val)
                 THEN /\ times(sessions[i].val) = 1
                      /\ sessions[i].key \notin Keys(w.sessions)
                 ELSE /\ times(sessions[i].val) = 0
                      /\ \E l \in DOMAIN w.sessions :
                            w.sessions[l] = sessions[i]
           /\ \A j \in DOMAIN w.expired :
                 /\ \E i \in DOMAIN sessions : sessions[i].val = w.expired[j]
                 /\ full(w.expired[j]) =>
                       \A ps \in GeneratePayloads(<<w.expired[j]>>) :
                          Len(ps) = 1
           /\ Len(w.payloads)
                 = Cardinality({j \in DOMAIN w.expired :
                       w.expired[j].last_seen - w.expired[j].start_time
                          >= TicksPerSecond})
           /\ Keys(w.sessions) \subseteq Keys(sessions)
           /\ \A t2 \in now..MaxTime :
                 \A w2 \in SweepOutcomes(w.sessions, t2) :
                    \A j \in DOMAIN w.expired, l \in DOMAIN w2.expired :
                       w2.expired[l] # w.expired[j]

\* C11 witness: a session observed for timeout seconds has just been
\* returned by the first sweep after its expiry, with its one payload, and
\* is gone from the map.
C11_Witness ==
    /\ Len(expired) = 1
    /\ expired[1].last_seen - expired[1].start_time
          = session_timeout * TicksPerSecond
    /\ now - expired[1].last_seen = session_timeout * TicksPerSecond + 1
    /\ Len(payloads) = 1
    /\ expired[1].track_id \notin Keys(sessions)
    /\ expired[1].track_id \in destroyed

\* C12: a session returned by a sweep whose last observation is less than
\* one whole second after its start yields no payload, and the sweep still
\* removes it from the map; no payload of a sweep has duration_seconds
\* below 1.
C12_ShortSessionsSilent ==
    /\ \A w \in SweepOutcomes(sessions, now) :
          /\ \A j \in DOMAIN w.expired :
                w.expired[j].last_seen - w.expired[j].start_time
                      < TicksPerSecond =>
                   /\ GeneratePayloads(<<w.expired[j]>>) = {<<>>}
                   /\ w.expired[j].track_id \notin Keys(w.sessions)
                   /\ w.expired[j].track_id \in w.removed
          /\ \A i \in DOMAIN w.payloads : w.payloads[i].duration_seconds >= 1
    /\ \A i \in DOMAIN payloads : payloads[i].duration_seconds >= 1
    /\ Len(payloads) <= Len(expired)

\* C12 witness: a sweep has just removed a session of duration 0 that had
\* been observed more than once, and nothing was emitted.
C12_Witness ==
    /\ Len(expired) = 1
    /\ expired[1].total_frames > 1
    /\ expired[1].last_seen - expired[1].start_time < TicksPerSecond
    /\ payloads = <<>>
    /\ expired[1].track_id \notin Keys(sessions)
    /\ expired[1].track_id \in destroyed

\* An IoU equal to the fraction n / d.
IouIs(o, n, d) == o.den > 0 /\ o.num * d = n * o.den

\* Scenario C before a call with batch dets: one live track whose predicted
\* box has IoU 0.6 with detection hi and 0.2 with detection lo.
ScenarioC(dets, hi, lo) ==
    LET rows == PredictedRows(PredictAll(trackers))
    IN /\ Len(trackers) = 1
       /\ Len(rows) = 1
       /\ DOMAIN dets = {hi, lo}
       /\ hi # lo
       /\ IouIs(IoU(dets[hi], rows[1]), 6, 10)
       /\ IouIs(IoU(dets[lo], rows[1]), 2, 10)

\* C13: in scenario C (threshold 0.3) the association matches the 0.6
\* detection to the track, returns the 0.2 detection as the only unmatched
\* detection and no unmatched track; the call updates the track and spawns
\* for the 0.2 detection one new track whose identity is the counter before
\* the call.
C13_ScenarioC ==
    [][\A hi, lo \in 1..2 :
         (ScenarioC(detections', hi, lo) /\ frame_count' = frame_count + 1) =>
            /\ \A a \in Associate(detections',
                                  PredictedRows(PredictAll(trackers))) :
                  /\ a.matches = << <<hi, 1>> >>
                  /\ a.unmatched_dets = <<lo>>
                  /\ a.unmatched_trks = <<>>
            /\ Len(trackers') = 2
            /\ trackers'[1].id = trackers[1].id
            /\ trackers'[1].hits = trackers[1].hits + 1
            /\ trackers'[1].time_since_update = 0
            /\ trackers'[2]
                  \in {KalmanInit(detections'[lo], count)}
            /\ trackers'[2].id \notin Ids(trackers)
            /\ count' = count + 1]_vars

\* C13 witness: the call of scenario C has happened: the track of the wide
\* box was matched and the detection of IoU 0.2 with it is a new track.
C13_Witness ==
    /\ Len(trackers) = 2
    /\ Len(detections) = 2
    /\ trackers[1].hits = 1
    /\ trackers[1].time_since_update = 0
    /\ GetState(trackers[1]).box = WideBox
    /\ trackers[2].age = 0
    /\ trackers[2].id = 1
    /\ \E hi, lo \in 1..2 :
          /\ IouIs(IoU(detections[hi], WideBox), 6, 10)
          /\ IouIs(IoU(detections[lo], WideBox), 2, 10)
          /\ GetState(trackers[2]).box = detections[lo]

\* The area of a box, and two boxes without a common point.
Area(b) == (b[3] - b[1]) * (b[4] - b[2])
Disjoint(a, b) == a[3] < b[1] \/ b[3] < a[1] \/ a[4] < b[2] \/ b[4] < a[2]

C15_AssociationPartitions ==
    /\ Associate(args.detections, args.trackers) # {}
    /\ out # <<>> =>
          LET a == out[1]
              inM(c, x) == Cardinality({i \in DOMAIN a.matches :
                                           a.matches[i][c] = x})
              inU(u, x) == Cardinality({i \in DOMAIN u : u[i] = x})
          IN /\ \A d \in DOMAIN args.detections :
                   inM(1, d) + inU(a.unmatched_dets, d) = 1
             /\ \A t \in DOMAIN args.trackers :
                   inM(2, t) + inU(a.unmatched_trks, t) = 1
             /\ \A i \in DOMAIN a.matches :
                   /\ a.matches[i][1] \in DOMAIN args.detections
                   /\ a.matches[i][2] \in DOMAIN args.trackers
             /\ Range(a.unmatched_dets) \subseteq DOMAIN args.detections
             /\ Range(a.unmatched_trks) \subseteq DOMAIN args.trackers

\* C15 witness: a call returned a matched pair, an unmatched detection and
\* an unmatched track, the latter two of a pair the post-filter rejected.
C15_Witness ==
    /\ out # <<>>
    /\ out[1].matches # <<>>
    /\ \E i \in DOMAIN out[1].unmatched_dets,
          j \in DOMAIN out[1].unmatched_trks :
          LET o == IoU(args.detections[out[1].unmatched_dets[i]],
                       args.trackers[out[1].unmatched_trks[j]])
          IN /\ o.num > 0
             /\ \A mi \in MatchedIndices(args.detections, args.trackers) :
                   \E l \in DOMAIN mi :
                      mi[l] = <<out[1].unmatched_dets[i],
                                out[1].unmatched_trks[j]>>

\* C16: every pair the association returns as matched has
\* IoU >= iou_threshold; and whatever candidate pairs the fast path or the
\* solver selects, a selected pair with IoU < iou_threshold is not among
\* the matches, and its detection and its track are both returned
\* unmatched.
C16_MatchesReachThreshold ==
    LET m == IouBatch(args.detections, args.trackers)
        atLeast(o) == o.den > 0 /\ o.num * IouThrDen >= IouThrNum * o.den
        under(o) == o.den > 0 /\ o.num * IouThrDen < IouThrNum * o.den
    IN /\ out # <<>> =>
             \A i \in DOMAIN out[1].matches :
                atLeast(m[out[1].matches[i][1]][out[1].matches[i][2]])
       /\ args.trackers # <<>> =>
             \A mi \in MatchedIndices(args.detections, args.trackers) :
                LET a == AssociateWith(args.detections, args.trackers, mi)
                IN \A l \in DOMAIN mi :
                      under(m[mi[l][1]][mi[l][2]]) =>
                         /\ mi[l] \notin Range(a.matches)
                         /\ mi[l][1] \in Range(a.unmatched_dets)
                         /\ mi[l][2] \in Range(a.unmatched_trks)

\* C16 witness: the call kept a matched pair of IoU exactly at the
\* threshold and returned unmatched a selected pair of positive IoU below
\* it.
C16_Witness ==
    /\ out # <<>>
    /\ \E i \in DOMAIN out[1].matches :
          IouIs(IoU(args.detections[out[1].matches[i][1]],
                    args.trackers[out[1].matches[i][2]]),
                IouThrNum, IouThrDen)
    /\ \E mi \in MatchedIndices(args.detections, args.trackers) :
          \E l \in DOMAIN mi :
             /\ IoU(args.detections[mi[l][1]], args.trackers[mi[l][2]]).num > 0
             /\ mi[l][1] \in Range(out[1].unmatched_dets)
             /\ mi[l][2] \in Range(out[1].unmatched_trks)

\* Lines 181-184: the fast path is taken: the largest row sum and the
\* largest column sum of the thresholded matrix are both 1.
FastPath(dets, trks) ==
    LET m == IouBatch(dets, trks)
        a == {p \in (DOMAIN dets) \X (DOMAIN trks) : IouAbove(m[p[1]][p[2]])}
    IN /\ a # {}
       /\ \A p, q \in a : (p[1] = q[1] \/ p[2] = q[2]) => p = q

\* C17 as claimed: whenever the fast path is taken, the matched pairs and
\* the unmatched sets returned are those of an optimal assignment of the
\* same IoU matrix followed by the threshold post-filter.
C17_Original ==
    (out # <<>> /\ FastPath(args.detections, args.trackers)) =>
        \E mi \in LinearAssignment(
                     IouBatch(args.detections, args.trackers),
                     Len(args.detections), Len(args.trackers)) :
            LET f == AssociateWith(args.detections, args.trackers, mi)
            IN /\ Range(f.matches) = Range(out[1].matches)
               /\ Range(f.unmatched_dets) = Range(out[1].unmatched_dets)
               /\ Range(f.unmatched_trks) = Range(out[1].unmatched_trks)

\* C18 as claimed: a track whose predicted box holds a NaN or an infinity
\* is gone from the track list after the call and is not in its output, and
\* the call leaves the other tracks, the output and the counter as a call
\* on the list without that track can leave them.
C18_Original ==
    [][frame_count' = frame_count + 1 =>
          LET bad(t) == BoxClass(KalmanPredict(t).kf) # "finite"
              good == SelectSeq(trackers, LAMBDA t : ~bad(t))
          IN /\ \A i \in DOMAIN trackers :
                   bad(trackers[i]) =>
                      /\ trackers[i].id \notin Ids(trackers')
                      /\ \A k \in DOMAIN ret' :
                            ret'[k].id # trackers[i].id + 1
             /\ \E o \in UpdateOutcomes(good, frame_count, count,
                                        detections') :
                   /\ o.trackers = trackers'
                   /\ o.ret = ret'
                   /\ o.count = count']_vars

\* C19: update_session for a track identity, whatever its arguments, leaves
\* a session under that identity (created with start_time now if it was
\* absent) whose total_frames is 1 more than before (than 0 if created),
\* whose last_seen is now, whose attention_frames is 1 more iff is_looking
\* and whose distances have the given distance appended iff one is given;
\* every other entry of the map is unchanged and no other key appears.
C19_UpdateSessionEffect ==
    \A k \in SessionIds, l \in BOOLEAN, d \in {NoDistance, 0, 100},
       ag \in {None, "25-34"}, g \in {None, "male"} :
        LET S2 == UpdateSession(sessions, k, l, d, ag, g, now)
            old == IF k \in Keys(sessions) THEN Lookup(sessions, k)
                   ELSE [track_id |-> k, start_time |-> now,
                         total_frames |-> 0, attention_frames |-> 0,
                         distances |-> <<>>]
            new == Lookup(S2, k)
        IN /\ Keys(S2) = Keys(sessions) \cup {k}
           /\ Len(S2) = Cardinality(Keys(S2))
           /\ new.track_id = k
           /\ new.start_time = old.start_time
           /\ new.total_frames = old.total_frames + 1
           /\ new.last_seen = now
           /\ new.attention_frames
                 = old.attention_frames + (IF l THEN 1 ELSE 0)
           /\ new.distances
                 = old.distances \o (IF d # NoDistance THEN <<d>> ELSE <<>>)
           /\ \A i \in DOMAIN sessions :
                 sessions[i].key # k => S2[i] = sessions[i]

\* C19 witness: of two sessions one was updated twice, at different times,
\* once looking with a distance and once not looking without one, while
\* the other stayed as it was created and updated before.
C19_Witness ==
    /\ Len(sessions) = 2
    /\ sessions[1].val.total_frames = 1
    /\ sessions[1].val.last_seen < now
    /\ sessions[2].val.total_frames = 2
    /\ sessions[2].val.attention_frames = 1
    /\ Len(sessions[2].val.distances) = 1
    /\ sessions[2].val.last_seen = now
    /\ sessions[2].val.start_time < now

\* C20 as stated: whenever a session's demographics_estimated flag is true,
\* update_session with any age group and gender leaves that session's vote
\* lists as they were.
C20_Original ==
    \A i \in DOMAIN sessions :
        sessions[i].val.demographics_estimated =>
            \A ag \in {None, "25-34"}, g \in {None, "male"} :
                LET new == Lookup(UpdateSession(sessions, sessions[i].key,
                                                TRUE, NoDistance, ag, g, now),
                                  sessions[i].key)
                IN /\ new.age_estimates = sessions[i].val.age_estimates
                   /\ new.gender_estimates = sessions[i].val.gender_estimates

\* C20, amended: in the frame loop a session whose demographics_estimated
\* flag is true keeps its vote lists for as long as it lives, and a session
\* whose vote lists grow in a frame has the flag true afterwards; so a
\* session of the running program never holds more than one vote of each
\* kind.  (update_session itself appends whenever it is given a vote.)
C20_LoopVotesOnce ==
    [][\A i \in DOMAIN sessions :
          sessions[i].key \in Keys(sessions') =>
             LET old == sessions[i].val
                 new == Lookup(sessions', sessions[i].key)
             IN /\ old.demographics_estimated =>
                      /\ new.age_estimates = old.age_estimates
                      /\ new.gender_estimates = old.gender_estimates
                      /\ new.demographics_estimated
                /\ (new.age_estimates # old.age_estimates
                       \/ new.gender_estimates # old.gender_estimates)
                      => new.demographics_estimated
                /\ Len(new.age_estimates) <= 1
                /\ Len(new.gender_estimates) <= 1]_vars

\* C20 witness: a session of the frame loop that received its vote and was
\* updated in later frames without receiving another.
C20_Witness ==
    \E i \in DOMAIN sessions :
        /\ sessions[i].val.demographics_estimated
        /\ sessions[i].val.total_frames >= 3
        /\ Len(sessions[i].val.age_estimates) = 1
        /\ Len(sessions[i].val.gender_estimates) = 1

\* C21: get_expired_sessions at any time returns exactly the sessions of the
\* map whose now - last_seen is strictly greater than the timeout, each
\* once, and leaves in the map exactly the others, unmodified and in their
\* order (a session whose gap equals the timeout stays).  And in every step
\* of the session manager a session that leaves the map had a gap strictly
\* greater than the timeout and is in the list the sweep returned, and the
\* sessions the sweep left are the ones it did not return.
C21_SweepRemovesExactlyExpired ==
    [][LET late(s) == now - s.last_seen > session_timeout * TicksPerSecond
           g == GetExpiredSessions(sessions, now)
       IN /\ \A i \in DOMAIN sessions :
                IF late(sessions[i].val)
                THEN /\ sessions[i].key \in g.removed
                     /\ sessions[i].key \notin Keys(g.sessions)
                     /\ Cardinality({j \in DOMAIN g.expired :
                           g.expired[j] = sessions[i].val}) = 1
                ELSE /\ sessions[i].key \notin g.removed
                     /\ \E l \in DOMAIN g.sessions :
                           g.sessions[l] = sessions[i]
          /\ Len(g.expired) + Len(g.sessions) = Len(sessions)
          /\ \A j \in DOMAIN g.expired :
                \E i \in DOMAIN sessions :
                   /\ sessions[i].val = g.expired[j]
                   /\ late(sessions[i].val)
          /\ \A i \in DOMAIN sessions :
                sessions[i].key \notin Keys(sessions') =>
                   /\ late(sessions[i].val)
                   /\ \E j \in DOMAIN expired' :
                         expired'[j] = sessions[i].val
          /\ expired' # <<>> =>
                /\ expired' = g.expired
                /\ sessions' = g.sessions
                /\ completed_count' = completed_count + Len(g.expired)]_vars

\* C21 witness: a sweep has just returned and removed one session, and left
\* in the map, as it was, a session whose gap equals the timeout.
C21_Witness ==
    /\ Len(expired) = 1
    /\ expired[1].track_id \notin Keys(sessions)
    /\ now - expired[1].last_seen > session_timeout * TicksPerSecond
    /\ \E i \in DOMAIN sessions :
          now - sessions[i].val.last_seen = session_timeout * TicksPerSecond

\* C22 as stated: no step of the frame loop adds an observation to a session
\* that is already in the map with now - last_seen greater than the
\* timeout.
C22_Original ==
    [][\A i \in DOMAIN sessions :
          (/\ sessions[i].key \in Keys(sessions')
           /\ Lookup(sessions', sessions[i].key).total_frames
                 > sessions[i].val.total_frames)
             => now' - sessions[i].val.last_seen
                   <= session_timeout * TicksPerSecond]_vars

\* C23 as stated: every payload of a sweep has attention_seconds equal to
\* the attention frame count of its session divided by the fps the
\* SessionManager was constructed with.
C23_Original ==
    \A i \in DOMAIN payloads :
        \E j \in DOMAIN expired :
            /\ payloads[i] \in ToPayloads(expired[j], device_id,
                                          firmware_version, model_version)
            /\ payloads[i].attention_seconds.num * fps
                  = expired[j].attention_frames
                       * payloads[i].attention_seconds.den

\* C24 as stated: the value returned for a vote list is "unknown" when the
\* list is empty, and otherwise a recorded value of the largest count that,
\* among the values of that count, occurs first in the list.
C24_Original ==
    out # <<>> =>
        LET votes == args.votes
            n(v) == Cardinality({i \in DOMAIN votes : votes[i] = v})
            first(v) == CHOOSE i \in DOMAIN votes :
                           /\ votes[i] = v
                           /\ \A j \in 1..(i - 1) : votes[j] # v
        IN IF votes = <<>> THEN out[1] = "unknown"
           ELSE /\ out[1] \in Range(votes)
                /\ \A u \in Range(votes) :
                      /\ n(out[1]) >= n(u)
                      /\ n(u) = n(out[1]) => first(out[1]) <= first(u)

\* C25: in every pass of the loop whose sweep yields payloads, _send_payloads makes
\* exactly one request per payload, in order, whatever became of the
\* requests before it (answered 200, answered otherwise, raised); the
\* sessions the sweep returned stay out of the map and counted as completed
\* whether or not their request failed, no request is made again in a step
\* without payloads, and the loop keeps running.
C25_FailedPostDroppedOnce ==
    [][/\ payloads' = <<>> => posts' = <<>>
       /\ payloads' # <<>> =>
             /\ Len(posts') = Len(payloads')
             /\ \A i \in DOMAIN payloads' :
                   /\ posts'[i].payload = payloads'[i]
                   /\ posts'[i].result \in {"200", "non200", "exception"}
             /\ \A j \in DOMAIN expired' :
                   expired'[j].track_id \notin Keys(sessions')
             /\ completed_count' = completed_count + Len(expired')
             /\ running' = running
             /\ now' = now]_vars

\* C25 witness: the loop has just posted a batch of two payloads; the first
\* request raised, the second was made all the same and answered with an
\* error status, both sessions are gone and the loop is still running.
C25_Witness ==
    /\ running
    /\ Len(payloads) = 2
    /\ Len(posts) = 2
    /\ posts[1].result = "exception"
    /\ posts[2].result = "non200"
    /\ posts[2].payload = payloads[2]
    /\ sessions = <<>>

\* C26: the step in which the frame loop stops (the video ends, or a frame
\* raises) returns no session, generates no payload, posts nothing and takes
\* no session out of the map, and no step follows it: the sessions in the
\* map when the loop stops stay there without a payload.
C26_StopEmitsNothing ==
    [][/\ running
       /\ ~running' =>
             /\ Keys(sessions) \subseteq Keys(sessions')
             /\ expired' = expired
             /\ payloads' = payloads
             /\ posts' = posts
             /\ completed_count' = completed_count
             /\ destroyed' = destroyed]_vars

\* C26 witness: the loop has stopped while the map holds a session that
\* lasted a second or more, and nothing was posted.
C26_Witness ==
    /\ ~running
    /\ posts = <<>>
    /\ payloads = <<>>
    /\ \E i \in DOMAIN sessions :
          sessions[i].val.last_seen - sessions[i].val.start_time
             >= TicksPerSecond

\* C27 as stated, in its first consequence: the identities a BoTSORT
\* instance has handed out after its first update call are 0 .. n-1 for
\* the n tracks it created, as its own batch alone determines, whatever
\* update calls another instance has made.
C27_Original ==
    frame_count = 1 => Ids(trackers) = 0..(Len(trackers) - 1)

\* C28: SessionPayload(...) with attention_seconds greater than
\* duration_seconds builds no object, whatever the other arguments; and
\* when attention_seconds is at most duration_seconds the validator of
\* attention_seconds raises nothing.
C28_AttentionAboveDurationRejected ==
    out # <<>> =>
        LET over == args.attention_seconds.num
                       > args.duration_seconds * args.attention_seconds.den
        IN /\ over => (out[1].errors # {} /\ out[1].rate = <<>>)
           /\ ~over => [loc |-> "attention_seconds", type |-> "value_error"]
                          \notin out[1].errors
           /\ (over /\ args.duration_seconds >= 0) =>
                 \E e \in out[1].errors : e.loc = "attention_seconds"

\* C28 witness: a payload whose only fault is an attention of a second and
\* a half over a duration of one second was refused for that.
C28_Witness ==
    /\ out # <<>>
    /\ args.duration_seconds = 1
    /\ args.attention_seconds.num = 3
    /\ out[1].errors
          = {[loc |-> "attention_seconds", type |-> "value_error"]}
    /\ out[1].rate = <<>>

C30_Original ==
    (/\ out # <<>>
     /\ args.device_id >= 1
     /\ args.duration_seconds >= 0
     /\ args.attention_seconds.num >= 0
     /\ args.attention_seconds.num
           <= args.duration_seconds * args.attention_seconds.den
     /\ args.demographics.age_group = "25-34"
     /\ args.coordinates = <<>>)
        => /\ out[1].errors = {}
           /\ Len(out[1].rate) = 1
           /\ IF args.duration_seconds = 0
              THEN out[1].rate[1].num = 0
              ELSE out[1].rate[1].num * args.attention_seconds.den
                      * args.duration_seconds
                   = args.attention_seconds.num * out[1].rate[1].den

\* C31: a POST /sessions whose X-API-Key differs from the configured key is
\* answered 401, and it leaves the collection and the messages handed to the
\* producer as they were; whenever a request adds a document or a message,
\* it carried the configured key.
C31_WrongKeyNoEffect ==
    [][(request' # request \/ response' # response
          \/ store' # store \/ Len(produced') # Len(produced)) =>
          /\ request'[1].x_api_key # "your-secret-api-key-here" =>
                /\ response'[1].status = 401
                /\ ~response'[1].success
                /\ store' = store
                /\ produced' = produced
          /\ (store' # store \/ Len(produced') # Len(produced)) =>
                request'[1].x_api_key = "your-secret-api-key-here"]_vars

\* C31 witness: with a document stored and produced before, a request with
\* another key and an acceptable body has just been answered 401.
C31_Witness ==
    /\ Len(store) = 1
    /\ Len(produced) = 1
    /\ request # <<>>
    /\ request[1].x_api_key = "wrong-key"
    /\ request[1].body.coordinates # <<>>
    /\ request[1].insert_ok
    /\ request[1].produce_ok
    /\ response[1].status = 401

\* C32: for every live track, predict adds exactly 1 to age and to
\* time_since_update, sets hit_streak to 0 if time_since_update was above 0
\* and leaves it otherwise, and leaves hits and the identity; update of the
\* predicted track with any box sets time_since_update to 0, adds exactly 1
\* to hits and to hit_streak and leaves age and the identity.
C32_PredictUpdateCounters ==
    \A i \in DOMAIN trackers :
        LET t == trackers[i]
            p == KalmanPredict(t)
        IN /\ p.age = t.age + 1
           /\ p.time_since_update = t.time_since_update + 1
           /\ p.hit_streak = (IF t.time_since_update > 0 THEN 0
                              ELSE t.hit_streak)
           /\ p.hits = t.hits
           /\ p.id = t.id
           /\ \A b \in SceneBoxes :
                 \A u \in KalmanUpdate(p, b) :
                    /\ u.time_since_update = 0
                    /\ u.hits = p.hits + 1
                    /\ u.hit_streak = p.hit_streak + 1
                    /\ u.age = p.age
                    /\ u.id = p.id

\* C32 witness: a track matched, missed for two frames and matched again:
\* its streak was reset by the predict of the second miss and restarted by
\* the update.
C32_Witness ==
    \E i \in DOMAIN trackers :
        /\ trackers[i].age = 4
        /\ trackers[i].hits = 2
        /\ trackers[i].hit_streak = 1
        /\ trackers[i].time_since_update = 0

\* The tracker of identity id among the trackers T.
TrackOf(T, id) == T[CHOOSE i \in DOMAIN T : T[i].id = id]

\* C33 as stated, frame by frame: a track created in an update call has all
\* four counters 0; a track that lives through a call has its age raised by
\* 1 and, when the call matched it (its hits raised by 1), time_since_update
\* 0 and hit_streak raised by 1, and when the call did not match it,
\* time_since_update raised by 1 and hit_streak 0.
C33_Original ==
    [][frame_count' # frame_count =>
         \A j \in DOMAIN trackers' :
            LET n == trackers'[j]
            IN IF n.id \notin Ids(trackers)
               THEN /\ n.age = 0 /\ n.hits = 0
                    /\ n.time_since_update = 0 /\ n.hit_streak = 0
               ELSE LET t == TrackOf(trackers, n.id)
                    IN /\ n.age = t.age + 1
                       /\ n.hits \in {t.hits, t.hits + 1}
                       /\ n.hits = t.hits + 1 =>
                             /\ n.time_since_update = 0
                             /\ n.hit_streak = t.hit_streak + 1
                       /\ n.hits = t.hits =>
                             /\ n.time_since_update = t.time_since_update + 1
                             /\ n.hit_streak = 0]_vars

\* C33, amended: as stated for age, hits and time_since_update; hit_streak
\* is the number of consecutive matches ending at the current frame for a
\* track matched in this call (a miss before restarts it at 1), it still
\* holds the count that ended with the previous frame for a track whose
\* first miss is this call, and it is 0 from the second missed frame on.
C33_CountersFrameByFrame ==
    [][frame_count' # frame_count =>
         \A j \in DOMAIN trackers' :
            LET n == trackers'[j]
            IN IF n.id \notin Ids(trackers)
               THEN /\ n.age = 0 /\ n.hits = 0
                    /\ n.time_since_update = 0 /\ n.hit_streak = 0
               ELSE LET t == TrackOf(trackers, n.id)
                        kept == IF t.time_since_update = 0 THEN t.hit_streak
                                ELSE 0
                    IN /\ n.age = t.age + 1
                       /\ n.hits \in {t.hits, t.hits + 1}
                       /\ n.hits = t.hits + 1 =>
                             /\ n.time_since_update = 0
                             /\ n.hit_streak = kept + 1
                       /\ n.hits = t.hits =>
                             /\ n.time_since_update = t.time_since_update + 1
                             /\ n.hit_streak = kept
                       /\ n.time_since_update >= 2 => n.hit_streak = 0]_vars

\* C33 witness: a track matched in two frames running has just missed its
\* first frame and still shows a streak of 2.
C33_Witness ==
    \E i \in DOMAIN trackers :
        /\ trackers[i].time_since_update = 1
        /\ trackers[i].hit_streak = 2
        /\ trackers[i].hits = 2
        /\ trackers[i].age = 3

\* C34: an update call on a tracker without live tracks leaves exactly one
\* track per detection of the batch, in the order of the batch, with the
\* next identities, zero hits and time_since_update 0; an update call with
\* an empty batch creates no track, matches none (no hits change), reports
\* none, and leaves every surviving track with time_since_update raised by
\* exactly 1, every other track being one the call has removed.
C34_EmptyInputsAreNormal ==
    [][frame_count' # frame_count =>
         /\ trackers = <<>> =>
               /\ Len(trackers') = Len(detections')
               /\ count' = count + Len(detections')
               /\ \A j \in DOMAIN trackers' :
                     /\ trackers'[j].id = count + j - 1
                     /\ trackers'[j].hits = 0
                     /\ trackers'[j].time_since_update = 0
                     /\ trackers'[j].age = 0
         /\ detections' = <<>> =>
               /\ Ids(trackers') \subseteq Ids(trackers)
               /\ count' = count
               /\ ret' = <<>>
               /\ \A i \in DOMAIN trackers :
                     IF trackers[i].id \in Ids(trackers')
                     THEN LET n == TrackOf(trackers', trackers[i].id)
                          IN /\ n.time_since_update
                                   = trackers[i].time_since_update + 1
                             /\ n.hits = trackers[i].hits
                     ELSE \E d \in dropped' :
                             d.trk.id = trackers[i].id]_vars

\* C34 witness: two tracks created by one call on an empty tracker have
\* just lived through a call with an empty batch.
C34_Witness ==
    /\ frame_count = 2
    /\ detections = <<>>
    /\ ret = <<>>
    /\ Len(trackers) = 2
    /\ \A i \in DOMAIN trackers :
          trackers[i].time_since_update = 1 /\ trackers[i].age = 1

\* C35: in every update call after the first min_hits calls, the reported
\* identities are exactly those of the tracks matched in the call whose
\* hit_streak has reached min_hits; a track created in the call has streak
\* 0, a track matched again after at least one missed frame has streak 1,
\* and a track matched in the call before as well has its streak raised by
\* 1: so neither is reported before its min_hits-th consecutive match, and
\* it is reported on the frame of that match.
C35_ReportedAfterConsecutiveMatches ==
    [][(frame_count' # frame_count /\ frame_count' > min_hits) =>
         /\ {ret'[k].id : k \in DOMAIN ret'}
               = {trackers'[j].id + 1 : j \in
                     {i \in DOMAIN trackers' :
                         /\ trackers'[i].time_since_update = 0
                         /\ trackers'[i].hit_streak >= min_hits}}
         /\ \A j \in DOMAIN trackers' :
               LET n == trackers'[j]
                   reported == \E k \in DOMAIN ret' : ret'[k].id = n.id + 1
               IN IF n.id \notin Ids(trackers)
                  THEN n.hit_streak = 0 /\ ~reported
                  ELSE LET t == TrackOf(trackers, n.id)
                       IN /\ (t.time_since_update >= 1
                                 /\ n.time_since_update = 0)
                             => (n.hit_streak = 1 /\ ~reported)
                          /\ (t.time_since_update = 0
                                 /\ n.time_since_update = 0)
                             => n.hit_streak = t.hit_streak + 1
                          /\ n.time_since_update # 0 => ~reported]_vars

\* C35 witness: after the grace period a track that had missed a frame is
\* reported in the call of its third consecutive match since the miss.
C35_Witness ==
    /\ frame_count > min_hits
    /\ \E i \in DOMAIN trackers :
          /\ trackers[i].hit_streak = min_hits
          /\ trackers[i].hits = min_hits + 1
          /\ trackers[i].age > trackers[i].hits
          /\ trackers[i].time_since_update = 0
          /\ \E k \in DOMAIN ret : ret[k].id = trackers[i].id + 1

\* C36 as stated: the predicted rows given to the association are, one for
\* one and in order, the predicted boxes of the trackers left after the pop
\* of the predict step.
C36_Original ==
    LET P == PredictAll(trackers)
        T1 == AfterPop(P)
        rows == PredictedRows(P)
    IN /\ Len(rows) = Len(T1)
       /\ \A i \in DOMAIN T1 :
             /\ i \in DOMAIN rows
             /\ BoxClass(T1[i].kf) = "finite"
             /\ rows[i] = ConvertXToBBox(T1[i].kf)

\* C37: at the end of every update call every live track has
\* 0 <= time_since_update <= max_age and 0 <= hit_streak <= hits <= age;
\* the live tracks have pairwise distinct identities, and so have the tracks
\* reported in the frame; and a live track has time_since_update = 0 exactly
\* when it was created in the call (its identity is new) or matched in the
\* call (its hits went up by one).
C37_CounterRanges ==
    [][frame_count' # frame_count =>
         /\ \A j \in DOMAIN trackers' :
               LET n == trackers'[j]
               IN /\ 0 <= n.time_since_update
                  /\ n.time_since_update <= max_age
                  /\ 0 <= n.hit_streak
                  /\ n.hit_streak <= n.hits
                  /\ n.hits <= n.age
                  /\ n.time_since_update = 0 <=>
                        \/ n.id \notin Ids(trackers)
                        \/ n.hits = TrackOf(trackers, n.id).hits + 1
         /\ \A i, j \in DOMAIN trackers' :
               trackers'[i].id = trackers'[j].id => i = j
         /\ \A i, j \in DOMAIN ret' : ret'[i].id = ret'[j].id => i = j]_vars

\* C37 witness: after a call two tracks are live and both reported, one
\* matched in the call after earlier matches, and a third track sits at the
\* age limit.
C37_Witness ==
    /\ Len(ret) = 2
    /\ \E i, j \in DOMAIN trackers :
          /\ trackers[i].time_since_update = 0
          /\ trackers[i].hits >= 2
          /\ trackers[j].time_since_update = max_age

\* C38: after any sequence of update_session and get_expired_sessions
\* calls, every session in the live map has start_time <= last_seen,
\* total_frames >= 1, 0 <= attention_frames <= total_frames, at most
\* total_frames recorded distances, is stored under the key equal to its
\* own track_id, and has demographics_estimated true exactly when at least
\* one age or gender vote is recorded.
C38_LiveSessionsWellFormed ==
    \A i \in DOMAIN sessions :
       LET s == sessions[i].val
       IN /\ s.start_time <= s.last_seen
          /\ s.total_frames >= 1
          /\ 0 <= s.attention_frames
          /\ s.attention_frames <= s.total_frames
          /\ Len(s.distances) <= s.total_frames
          /\ sessions[i].key = s.track_id
          /\ s.demographics_estimated <=>
                Len(s.age_estimates) + Len(s.gender_estimates) >= 1

\* C38 witness: after a sweep has completed a session, the live map holds a
\* session of two frames with a gender vote and no age vote, no attention
\* frame and one distance, next to a session without any vote.
C38_Witness ==
    /\ completed_count >= 1
    /\ \E i, j \in DOMAIN sessions :
          /\ sessions[i].val.demographics_estimated
          /\ sessions[i].val.age_estimates = <<>>
          /\ Len(sessions[i].val.gender_estimates) = 1
          /\ sessions[i].val.total_frames = 2
          /\ sessions[i].val.attention_frames = 0
          /\ Len(sessions[i].val.distances) = 1
          /\ sessions[i].val.start_time < sessions[i].val.last_seen
          /\ ~sessions[j].val.demographics_estimated
          /\ sessions[j].val.age_estimates = <<>>
          /\ sessions[j].val.gender_estimates = <<>>

\* C39: the statistics of the SessionManager are conserved.  A new manager
\* has no session and completed_count = 0; in every step completed_count
\* grows by exactly the number of sessions that left the live map (all of
\* them returned by the sweep, whether or not a payload was generated for
\* them), and active count + completed_count grows by exactly the number of
\* sessions created in the step.
C39_StatsConserved ==
    /\ (sessions = <<>> /\ completed_count = 0)
    /\ [][LET gone == {i \in DOMAIN sessions :
                          \A j \in DOMAIN sessions' :
                             \/ sessions'[j].key # sessions[i].key
                             \/ sessions'[j].val.start_time
                                   # sessions[i].val.start_time}
              made == {j \in DOMAIN sessions' :
                          \A i \in DOMAIN sessions :
                             \/ sessions'[j].key # sessions[i].key
                             \/ sessions'[j].val.start_time
                                   # sessions[i].val.start_time}
          IN /\ completed_count' = completed_count + Cardinality(gone)
             /\ Cardinality(gone) > 0 =>
                   /\ Len(expired') = Cardinality(gone)
                   /\ Len(payloads') <= Len(expired')
             /\ Len(sessions') + completed_count'
                   = Len(sessions) + completed_count + Cardinality(made)]_vars

\* C39 witness: a sweep has just removed a session that lasted under one
\* second, so no payload was generated for it; it is the second session
\* completed, and another session is still active.
C39_Witness ==
    /\ completed_count = 2
    /\ Len(expired) = 1
    /\ payloads = <<>>
    /\ GetDurationSeconds(expired[1]) < 1
    /\ Len(sessions) = 1

\* C40: for each authenticated POST /sessions the payload is inserted in
\* the document store before it is handed to the producer, so whatever was
\* produced is in the store; if the insert fails nothing is produced,
\* nothing is stored and the answer is 500; and a success answer is only
\* given when the insert returned and send_session returned, the document
\* being the last of the store, its place the session reference, and the
\* message the last one queued.
C40_InsertBeforeProduce ==
    /\ [](\A j \in DOMAIN produced :
             \E i \in DOMAIN store : store[i] = produced[j].value)
    /\ [][(~UNCHANGED <<store, request, response>>
            /\ request'[1].x_api_key = "your-secret-api-key-here") =>
          LET rq == request'[1]
              rs == response'[1]
              msg == [key |-> rq.body.device_id, value |-> rq.body,
                      state |-> "queued"]
          IN /\ produced' # produced =>
                   /\ store' = Append(store, rq.body)
                   /\ produced' = Append(produced, msg)
             /\ (~rq.insert_ok /\ ValidatePayload(rq.body) = {}) =>
                   /\ produced' = produced
                   /\ store' = store
                   /\ rs.status = 500
                   /\ ~rs.success
             /\ rs.success =>
                   /\ rs.status = 200
                   /\ rq.insert_ok
                   /\ rq.produce_ok
                   /\ store' = Append(store, rq.body)
                   /\ rs.session_id = Len(store')
                   /\ produced' = Append(produced, msg)]_vars

\* C40 witness: an authenticated request has just been answered with
\* success and the reference of the second document, the first document
\* having been stored by a request whose produce raised.
C40_Witness ==
    /\ request # <<>>
    /\ request[1].x_api_key = api_key
    /\ response[1].success
    /\ response[1].session_id = 2
    /\ Len(store) = 2
    /\ Len(produced) = 1
    /\ produced[1].value = store[2]

\* C7: a row of the output belongs to a live track matched or created in
\* this call (time_since_update < 1), and a track with hits < min_hits is
\* in the output only while frame_count <= min_hits.
C7_ReportedFreshAndConfirmed ==
    \A k \in DOMAIN ret : \E i \in DOMAIN trackers :
        /\ trackers[i].id + 1 = ret[k].id
        /\ trackers[i].time_since_update < 1
        /\ (trackers[i].hits < min_hits => frame_count <= min_hits)

\* C7 witness: after the grace period, a track is reported while another
\* one, created in this call, is not.
C7_Witness ==
    /\ frame_count > min_hits
    /\ ret # <<>>
    /\ \E i \in DOMAIN trackers :
          /\ trackers[i].time_since_update = 0
          /\ trackers[i].hits < min_hits
          /\ \A k \in DOMAIN ret : ret[k].id # trackers[i].id + 1

\* The run of scenario A so far: every call was fed the one stationary box,
\* which created the only track in call 1 and matched it in every call since.
ScenarioA ==
    /\ frame_count \in 1..5
    /\ count = 1
    /\ Len(trackers) = 1
    /\ trackers[1].hits = frame_count - 1
    /\ detections = <<GetState(trackers[1]).box>>

\* C8 as claimed: in scenario A nothing is reported on frames 1 and 2, and
\* one track of the same identity on frames 3, 4 and 5.
C8_Original ==
    ScenarioA =>
        IF frame_count <= 2 THEN ret = <<>>
        ELSE Len(ret) = 1 /\ ret[1].id = 1

\* C8 amended: in scenario A one track of the same identity is reported on
\* every one of the frames 1 to 5.
C8_ReportedFromFirstFrame ==
    ScenarioA => (Len(ret) = 1 /\ ret[1].id = 1 /\ trackers[1].id + 1 = 1)

\* C8 witness: frame 5 of scenario A.
C8_Witness == ScenarioA /\ frame_count = 5 /\ Len(ret) = 1

\* C9 as claimed: every live track has time_since_update <= max_age, and
\* every track a call removed had time_since_update > max_age.
C9_Original ==
    /\ \A i \in DOMAIN trackers : trackers[i].time_since_update <= max_age
    /\ \A d \in dropped : d.trk.time_since_update > max_age

\* C9 amended: every live track has time_since_update <= max_age; a track
\* removed at the end of a call had time_since_update > max_age, and the
\* only other removal is that, in the predict step, of a track whose
\* predicted box holds a NaN.
C9_RemovedByAgeOrNaN ==
    /\ \A i \in DOMAIN trackers : trackers[i].time_since_update <= max_age
    /\ \A d \in dropped :
          IF d.line = 168 THEN d.trk.time_since_update > max_age
          ELSE BoxClass(d.trk.kf) = "nan"

\* C9 witness: one call removed a track for its age and another for a NaN.
C9_Witness ==
    \E d, e \in dropped :
        /\ d.line = 168 /\ d.trk.time_since_update = max_age + 1
        /\ e.line = 141 /\ e.trk.time_since_update <= max_age

\* C10: with a single confirmed track, a call with an empty batch keeps the
\* track (one frame older) while its time_since_update is below max_age and
\* removes it, once, when it is max_age: so the track fed empty batches from
\* time_since_update = 0 survives max_age of them and goes on the next; a
\* call with an empty batch on an empty track list leaves it empty and
\* removes nothing.
C10_CoastThenRemovedOnce ==
    [][(detections' = <<>> /\ frame_count' = frame_count + 1) =>
          /\ (Len(trackers) = 1 /\ trackers[1].hits >= min_hits) =>
                IF trackers[1].time_since_update < max_age
                THEN /\ Len(trackers') = 1
                     /\ trackers'[1].id = trackers[1].id
                     /\ trackers'[1].time_since_update
                           = trackers[1].time_since_update + 1
                     /\ dropped' = {}
                ELSE /\ trackers' = <<>>
                     /\ Cardinality(dropped') = 1
                     /\ \A d \in dropped' : d.trk.id = trackers[1].id
          /\ trackers = <<>> =>
                (trackers' = <<>> /\ dropped' = {} /\ ret' = <<>>)]_vars

\* C10 witness: the only track ever created, confirmed, has just been
\* removed by the (max_age + 1)-th empty batch.
C10_Witness ==
    /\ trackers = <<>>
    /\ count = 1
    /\ detections = <<>>
    /\ \E d \in dropped :
          /\ d.trk.hits >= min_hits
          /\ d.trk.time_since_update = max_age + 1

====
